---- MODULE Spec2Model ----
(***************************************************************************)
(* Per-user extraction queue of backend/app/services/queue_manager.py,     *)
(* together with the status writes of run_extraction_pipeline and          *)
(* store_extraction_outputs.                                               *)
(*                                                                         *)
(* Everything runs on one asyncio event loop.  A coroutine is modelled by  *)
(* the segments between the points where it can be suspended.  The body of *)
(* enqueue_extraction never suspends (asyncio.Queue() is unbounded, so     *)
(* `await queue.put` returns at once); its medium branch is modelled one   *)
(* loop iteration at a time, and while it runs nothing else can run.       *)
(*                                                                         *)
(* Spec and SoloSpec follow the queue with the pipeline's stages 1 to 4 as *)
(* one step; PipeSpec follows one run of run_extraction_pipeline through   *)
(* its stages, the per-image coroutines of stages 2 and 3 and their model  *)
(* calls included.  GateSpec follows the generate_content calls of one     *)
(* user through the rate limiter of services/rate_limiter.py, with the     *)
(* clock and the date moving; RetrySpec follows one request through        *)
(* _call_openai_with_retry; EventSpec follows the event manager of         *)
(* services/event_manager.py and its subscribers; StreamSpec follows the   *)
(* streams of create_sse_stream from subscription to disconnection.        *)
(* DuoSpec is the queue of two users under per-user fairness, with low and *)
(* medium enqueues.                                                        *)
(***************************************************************************)
EXTENDS Integers, Sequences, FiniteSets, TLC

\* ---- bounds ----
NumUsers == 2
\* extractions submitted in a run of Spec
MaxJobs == 2
\* extractions submitted in a run of the one-user specification SoloSpec
SoloJobs == 4
\* extractions submitted in a run of the two-user specification DuoSpec
DuoJobs == 4
\* images the decoder yields for the job of the pipeline specification PipeSpec
MaxImages == 2

Users == 1..NumUsers
Jobs == 1..(IF MaxJobs > SoloJobs THEN MaxJobs ELSE SoloJobs)

\* Python's None, for extraction ids and user ids
None == 0

VARIABLES
    status,        \* extractions.status column, per extraction id
    owner,         \* extractions.user_id column
    user_queues,   \* ExtractionQueueManager._user_queues
    processing,    \* ExtractionQueueManager._processing
    file_storage,  \* keys of ExtractionQueueManager._file_storage
    lock,          \* ExtractionQueueManager._lock is held
    enq,           \* frame of the enqueue_extraction call that is running
    spawned,       \* process_queue tasks created and not yet run, per user
    active,        \* process_queue tasks past their first lock section
    fresh,         \* history: the job enqueued for a user that had nothing processing
                   \* and nothing pending, until the user's next dequeue
    outputs,       \* result and raw-output columns of the extractions rows
    \* one run of run_extraction_pipeline, stage by stage (PipeSpec)
    ppc,                 \* position of the run
    image_bytes_list,    \* number of images stage 1 produced
    ext,                 \* extract_tables_from_image coroutines, by image index
    val,                 \* validate_extraction coroutines, by image index
    extraction_results,  \* what extract_tables_from_images returned
    validation_results,  \* what validate_extractions returned
    final_table_data,    \* what generate_final_output returned
    fin,                 \* the finalize stage's model call and its outcome
    calls,               \* rate-limiter checks, outbound requests, usage records
    events,              \* events broadcast for the job, in order
    \* the rate limiter and the generate_content calls that use it (GateSpec)
    now,                 \* time.time(), in seconds
    today,               \* datetime.now().date(), as a day number
    user_rpm,            \* RateLimiter.user_rpm: request timestamps per user
    user_tpm,            \* RateLimiter.user_tpm: <<timestamp, tokens>> per user
    user_rpd,            \* RateLimiter.user_rpd: request count per user
    user_rpd_date,       \* RateLimiter.user_rpd_date: day of the last reset per user
    gc,                  \* frames of the generate_content calls that are running
    started,             \* generate_content calls made so far
    op,                  \* the operation the last step performed, with its result
    recorded_today,      \* history: record_request calls per user since midnight
    \* one request in the thread that runs _call_openai_with_retry (RetrySpec)
    thread,              \* position and attempt number of the call
    log,                 \* history: the provider's answers to the outbound calls of the request
    handed,              \* requests handed to a thread so far
    \* the event manager and its subscribers (EventSpec)
    connections,         \* EventManager._connections: extraction id -> set of queues
    channel,             \* contents of the asyncio.Queue objects handed to subscribers
    eop,                 \* the event-manager operation the last step performed
    store_raised,        \* history: the extraction in whose running attempt store_extraction_outputs raised
    carried,             \* the images each validation request of the run carried, by image index
    stream,              \* create_sse_stream generators, by the queue each one holds
    broadcasts           \* history: <<extraction id, event_data>> of the broadcast calls

pvars == <<ppc, image_bytes_list, ext, val, extraction_results, validation_results,
           final_table_data, fin, calls, events>>

rvars == <<now, today, user_rpm, user_tpm, user_rpd, user_rpd_date, gc, started,
           op, recorded_today, thread, log, handed>>

evars == <<connections, channel, eop, stream, broadcasts>>

hvars == <<store_raised, carried>>

vars == <<status, owner, user_queues, processing, file_storage, lock,
          enq, spawned, active, fresh, outputs, pvars, rvars, evars, hvars>>

\* ---- helpers ----

\* self._processing.get(user_id)
ProcessingGet(u) == IF u \in DOMAIN processing THEN processing[u] ELSE None

QueueOf(u) == IF u \in DOMAIN user_queues THEN user_queues[u] ELSE <<>>

\* the id the database gives the next inserted extraction row
NextId == CHOOSE j \in Jobs : status[j] = "absent" /\ \A k \in Jobs : k < j => status[k] # "absent"

IdleFrame == [pc |-> "idle", extraction_id |-> None, user_id |-> None,
              temp_items |-> <<>>, found_insert |-> FALSE]

\* `if user_id not in self._user_queues:` creates the queue
WithQueue(uq, u) == [x \in (DOMAIN uq) \cup {u} |-> IF x \in DOMAIN uq THEN uq[x] ELSE <<>>]

\* ... and the processing slot
WithSlot(p, u) == [x \in (DOMAIN p) \cup {u} |-> IF x \in DOMAIN p THEN p[x] ELSE None]

\* the new item put behind the drained ones
HighInsert_Mut(q, queue_item) == Append(q, queue_item)

\* high branch: drain the queue into temp_items, put the new item, put the others back
HighInsert(q, queue_item) == LET temp_items == q IN <<queue_item>> \o temp_items

\* the new item put ahead of the queue
LowInsert_Mut(q, queue_item) == <<queue_item>> \o q

\* low branch: queue.put(queue_item)
LowInsert(q, queue_item) == Append(q, queue_item)

\* no task created
StartIfIdle_Mut(sp, slot, u) == sp

\* `if self._processing.get(user_id) is None: asyncio.create_task(...)`
StartIfIdle(sp, slot, u) == IF slot = None THEN [sp EXCEPT ![u] = @ + 1] ELSE sp

\* the check left out
AlreadyProcessing_Mut(u) == FALSE

\* process_queue: `if self._processing.get(user_id) is not None: return`
AlreadyProcessing(u) == ProcessingGet(u) # None

\* the slot not written
TakeSlot_Mut(p, u, extraction_id) == p

\* process_queue: `self._processing[user_id] = extraction_id`
TakeSlot(p, u, extraction_id) == [p EXCEPT ![u] = extraction_id]

\* the slot not reset
ReleaseSlot_Mut(p, u) == p

\* finally: `self._processing[user_id] = None`
ReleaseSlot(p, u) == [p EXCEPT ![u] = None]

\* the entry kept
DropBytes_Mut(fs, extraction_id) == fs

\* finally: `if extraction_id in self._file_storage: del self._file_storage[extraction_id]`
DropBytes(fs, extraction_id) == fs \ {extraction_id}

\* no task created
Respawn_Mut(sp, u) == sp

\* finally: `if user_id in self._user_queues: asyncio.create_task(...)`
Respawn(sp, u) == IF u \in DOMAIN user_queues THEN [sp EXCEPT ![u] = @ + 1] ELSE sp

\* the JSON columns of a row that create_extraction inserted
NoOutputs == [table_data |-> "null", llm_extraction_output |-> "null",
              llm_validation_output |-> "null", llm_final_output |-> "null"]

\* store_extraction_outputs: the four JSON columns, the final output carrying
\* the timing metrics measured so far (step 5 still 0)
StoreOutputs(row, final_table, extractions, validations) ==
    [table_data |-> final_table,
     llm_extraction_output |-> extractions,
     llm_validation_output |-> validations,
     llm_final_output |-> "timing_so_far"]

\* `extraction.llm_final_output["timing_metrics"] = timing_metrics`
TimingWrite(row) == [row EXCEPT !.llm_final_output = "timing_final"]

\* no run of the pipeline is followed stage by stage
NoRun ==
    /\ ppc = "idle"
    /\ image_bytes_list = 0
    /\ ext = <<>>
    /\ val = <<>>
    /\ extraction_results = <<>>
    /\ validation_results = <<>>
    /\ final_table_data = "null"
    /\ fin = "none"
    /\ calls = [checks |-> 0, requests |-> 0, records |-> 0]
    /\ events = <<>>

\* settings.rate_limit_rpm, rate_limit_tpm and rate_limit_rpd, scaled down
rate_limit_rpm == 2
rate_limit_tpm == 3
rate_limit_rpd == 2
\* generate_content calls made in a run of GateSpec, and how many run at a time
MaxCalls == 3
MaxInFlight == 2
\* largest token estimate of a call
MaxTokens == 2
\* last day of a run of GateSpec
MaxDay == 2

\* _clean_old_requests(user_id, window_seconds=60)
window_seconds == 60
\* wait_for_rate_limit: `return 1.0  # Default 1 second wait`
default_wait == 1
\* settings.max_retries
max_retries == 3

\* the frames of the generate_content calls that are running
Slots == 1..MaxInFlight
\* seconds the clock advances in one step, and the last second of a run
TickSeconds == window_seconds \div 2
MaxNow == 3 * TickSeconds
\* what the provider answers to one outbound call
ProviderOutcomes == {"ok", "rate_limit", "error"}

IdleCall == [pc |-> "idle", user_id |-> None, tokens |-> 0, wake |-> 0]

NoOp == [name |-> "none", user_id |-> None, tokens |-> 0, ok |-> FALSE, wait |-> 0,
         result |-> "none"]

\* RateLimiter.__init__ (the dicts are empty: a missing key reads as an empty
\* deque, a zero count, no date), no generate_content call made
NoRequests ==
    /\ now = 0
    /\ today = 1
    /\ user_rpm = [u \in Users |-> <<>>]
    /\ user_tpm = [u \in Users |-> <<>>]
    /\ user_rpd = [u \in Users |-> 0]
    /\ user_rpd_date = [u \in Users |-> None]
    /\ gc = [c \in Slots |-> IdleCall]
    /\ started = 0
    /\ op = NoOp
    /\ recorded_today = [u \in Users |-> 0]
    /\ thread = [pc |-> "none", attempt |-> 0]
    /\ log = <<>>
    /\ handed = 0

\* asyncio.Queue objects handed out by subscribe in a run of EventSpec
MaxQueues == 2
\* events waiting on one subscriber's queue
MaxPending == 1
\* broadcast calls in a run of StreamSpec
MaxEvents == 2

\* extraction ids that clients subscribe to and the pipeline broadcasts for
ExtractionIds == 1..MaxJobs
\* event_data values
EventData == {"step_update", "status_update", "status_completed"}
\* the status_update events of a job that has reached a terminal status,
\* completed or failed (extraction_pipeline.py 215-221 and 249-255)
TerminalData == {"status_completed"}

\* EventManager.__init__
NoSubscribers ==
    /\ connections = <<>>
    /\ channel = <<>>
    /\ eop = [name |-> "none", extraction_id |-> None, queue |-> 0, event_data |-> "none"]
    /\ stream = <<>>
    /\ broadcasts = <<>>

\* The event loop runs one coroutine at a time, up to its next suspension: a
\* process_queue task is suspended only inside the pipeline's stages (file
\* decoding, model calls), and enqueue_extraction is never suspended.
Suspended(t) == t.pc = "p_stages"

\* no coroutine is in the middle of a segment: the loop can pick the next one
LoopFree == enq.pc = "idle" /\ \A t \in active : Suspended(t)

Init ==
    /\ status = [j \in Jobs |-> "absent"]
    /\ owner = [j \in Jobs |-> None]
    /\ user_queues = <<>>
    /\ processing = <<>>
    /\ file_storage = {}
    /\ lock = FALSE
    /\ enq = IdleFrame
    /\ spawned = [u \in Users |-> 0]
    /\ active = {}
    /\ fresh = [u \in Users |-> None]
    /\ outputs = [j \in Jobs |-> NoOutputs]
    /\ store_raised = None
    /\ carried = <<>>
    /\ NoRun
    /\ NoRequests
    /\ NoSubscribers

\* ---- create_extraction + enqueue_extraction ----

\* the route inserts the row (status pending) and calls enqueue_extraction,
\* which stores the bytes and takes the lock
Accept(u, n) ==
    /\ LoopFree
    /\ ~lock
    /\ \E j \in 1..n : status[j] = "absent"
    /\ fresh' = IF ProcessingGet(u) = None /\ QueueOf(u) = <<>>
                THEN [fresh EXCEPT ![u] = NextId] ELSE fresh
    /\ status' = [status EXCEPT ![NextId] = "pending"]
    /\ owner' = [owner EXCEPT ![NextId] = u]
    /\ file_storage' = file_storage \cup {NextId}
    /\ processing' = WithSlot(processing, u)

EnqueueHigh(u, n) ==
    /\ Accept(u, n)
    /\ user_queues' = [WithQueue(user_queues, u) EXCEPT ![u] = HighInsert(@, <<"high", NextId>>)]
    /\ spawned' = StartIfIdle(spawned, ProcessingGet(u), u)
    /\ UNCHANGED <<lock, enq, active, outputs, pvars, rvars, evars, hvars>>

EnqueueLow(u, n) ==
    /\ Accept(u, n)
    /\ user_queues' = [WithQueue(user_queues, u) EXCEPT ![u] = LowInsert(@, <<"low", NextId>>)]
    /\ spawned' = StartIfIdle(spawned, ProcessingGet(u), u)
    /\ UNCHANGED <<lock, enq, active, outputs, pvars, rvars, evars, hvars>>

\* medium branch up to the `while not queue.empty()` loop
EnqueueMedium(u, n) ==
    /\ Accept(u, n)
    /\ user_queues' = WithQueue(user_queues, u)
    /\ lock' = TRUE
    /\ enq' = [pc |-> "loop", extraction_id |-> NextId, user_id |-> u,
               temp_items |-> <<>>, found_insert |-> FALSE]
    /\ UNCHANGED <<spawned, active, outputs, pvars, rvars, evars, hvars>>

\* one iteration of the medium branch's loop
MediumLoopStep ==
    /\ enq.pc = "loop"
    /\ user_queues[enq.user_id] # <<>>
    /\ LET u == enq.user_id
           queue_item == <<"medium", enq.extraction_id>>
           item == Head(user_queues[u])
           rest == Tail(user_queues[u])
       IN  IF item[1] = "high"
           THEN /\ enq' = [enq EXCEPT !.temp_items = Append(@, item)]
                /\ user_queues' = [user_queues EXCEPT ![u] = rest]
           ELSE IF ~enq.found_insert
           THEN /\ enq' = [enq EXCEPT !.found_insert = TRUE]
                /\ user_queues' = [user_queues EXCEPT
                       ![u] = rest \o enq.temp_items \o <<queue_item>> \o <<item>>]
           ELSE /\ enq' = enq
                /\ user_queues' = [user_queues EXCEPT ![u] = Append(rest, item)]
    /\ UNCHANGED <<status, owner, processing, file_storage, lock,
                   spawned, active, fresh, outputs, pvars, rvars, evars, hvars>>

\* the loop ends on an empty queue; `if not found_insert`, then the start check
MediumLoopExit ==
    /\ enq.pc = "loop"
    /\ user_queues[enq.user_id] = <<>>
    /\ LET u == enq.user_id
           queue_item == <<"medium", enq.extraction_id>>
       IN  /\ user_queues' = [user_queues EXCEPT
                  ![u] = IF ~enq.found_insert
                         THEN enq.temp_items \o <<queue_item>> ELSE @]
           /\ spawned' = StartIfIdle(spawned, ProcessingGet(u), u)
    /\ enq' = IdleFrame
    /\ lock' = FALSE
    /\ UNCHANGED <<status, owner, processing, file_storage, active, fresh, outputs, pvars, rvars, evars, hvars>>

\* ---- process_queue ----

Move(t, newpc) == (active \ {t}) \cup {[t EXCEPT !.pc = newpc]}

\* first lock section: return, or take the head of the queue and the slot
PQStart(u) ==
    /\ LoopFree
    /\ ~lock
    /\ spawned[u] > 0
    /\ spawned' = [spawned EXCEPT ![u] = @ - 1]
    /\ IF u \notin DOMAIN user_queues \/ AlreadyProcessing(u) \/ QueueOf(u) = <<>>
       THEN UNCHANGED <<user_queues, processing, active, fresh>>
       ELSE LET extraction_id == Head(user_queues[u])[2]
            IN  /\ user_queues' = [user_queues EXCEPT ![u] = Tail(@)]
                /\ processing' = TakeSlot(processing, u, extraction_id)
                /\ active' = active \cup {[user_id |-> u, extraction_id |-> extraction_id,
                                          pc |-> "load"]}
                /\ fresh' = [fresh EXCEPT ![u] = None]
    /\ UNCHANGED <<status, owner, file_storage, lock, enq, outputs, pvars, rvars, evars, hvars>>

\* load the row, check the stored bytes, write status processing
PQLoad(t, dbOk) ==
    /\ t \in active /\ t.pc = "load"
    /\ LET e == t.extraction_id
       IN  IF ~dbOk
           THEN /\ active' = Move(t, "except")
                /\ status' = status
           ELSE IF status[e] = "deleted"
           THEN /\ active' = Move(t, "finally")
                /\ status' = status
           ELSE IF e \notin file_storage
           THEN /\ active' = Move(t, "finally")
                /\ status' = [status EXCEPT ![e] = "failed"]
           ELSE /\ active' = Move(t, "p_start")
                /\ status' = [status EXCEPT ![e] = "processing"]
    /\ UNCHANGED <<owner, user_queues, processing, file_storage, lock,
                   enq, spawned, fresh, outputs, pvars, rvars, evars, hvars>>

\* ---- run_extraction_pipeline ----

\* `extraction.status = PROCESSING; db.commit()`
PipelineStart(t, dbOk) ==
    /\ t \in active /\ t.pc = "p_start"
    /\ LET e == t.extraction_id
       IN  IF ~dbOk \/ status[e] = "deleted"
           THEN /\ active' = Move(t, "p_except")
                /\ status' = status
           ELSE /\ active' = Move(t, "p_stages")
                /\ status' = [status EXCEPT ![e] = "processing"]
    /\ UNCHANGED <<owner, user_queues, processing, file_storage, lock,
                   enq, spawned, fresh, outputs, pvars, rvars, evars, hvars>>

\* stages 1 to 4: they return, or an exception escapes one of them
PipelineStages(t, ok) ==
    /\ LoopFree
    /\ t \in active /\ t.pc = "p_stages"
    /\ active' = Move(t, IF ok THEN "p_store" ELSE "p_except")
    /\ UNCHANGED <<status, owner, user_queues, processing, file_storage,
                   lock, enq, spawned, fresh, outputs, pvars, rvars, evars, hvars>>

\* the query or the commit of store_extraction_outputs raising marks the job failed there
PipelineStore_Mut(t, dbOk) ==
    /\ t \in active /\ t.pc = "p_store"
    /\ LET e == t.extraction_id
           stored == dbOk /\ status[e] # "deleted"
       IN  /\ active' = Move(t, IF dbOk THEN "p_timing" ELSE "p_except")
           /\ status' = IF stored THEN [status EXCEPT ![e] = "completed"]
                         ELSE [status EXCEPT ![e] = "failed"]
           /\ outputs' = IF stored THEN [outputs EXCEPT ![e] =
                                  StoreOutputs(@, "final_table_data", "extraction_results",
                                               "validation_results")] ELSE outputs
           /\ store_raised' = IF dbOk THEN store_raised ELSE e
    /\ UNCHANGED <<owner, user_queues, processing, file_storage, lock,
                   enq, spawned, fresh, carried, pvars, rvars, evars>>

\* stage 5: store_extraction_outputs; its query or its commit raising leaves
\* the pipeline's try block for the handler
PipelineStore(t, dbOk) ==
    /\ t \in active /\ t.pc = "p_store"
    /\ LET e == t.extraction_id
           stored == dbOk /\ status[e] # "deleted"
       IN  /\ active' = Move(t, IF dbOk THEN "p_timing" ELSE "p_except")
           /\ status' = IF stored THEN [status EXCEPT ![e] = "completed"] ELSE status
           /\ outputs' = IF stored THEN [outputs EXCEPT ![e] =
                                  StoreOutputs(@, "final_table_data", "extraction_results",
                                               "validation_results")] ELSE outputs
           /\ store_raised' = IF dbOk THEN store_raised ELSE e
    /\ UNCHANGED <<owner, user_queues, processing, file_storage, lock,
                   enq, spawned, fresh, carried, pvars, rvars, evars>>

\* re-query, write the final timing metrics, broadcast completion, return
PipelineTiming(t, dbOk) ==
    /\ t \in active /\ t.pc = "p_timing"
    /\ LET e == t.extraction_id
       IN  /\ active' = Move(t, IF ~dbOk THEN "p_except"
                                ELSE IF status[e] = "deleted" THEN "except"
                                ELSE "finally")
           /\ outputs' = IF dbOk /\ status[e] # "deleted"
                         THEN [outputs EXCEPT ![e] = TimingWrite(@)] ELSE outputs
    /\ UNCHANGED <<status, owner, user_queues, processing, file_storage,
                   lock, enq, spawned, fresh, pvars, rvars, evars, hvars>>

\* except: rollback, re-query, write status failed, re-raise
PipelineExcept(t, dbOk) ==
    /\ t \in active /\ t.pc = "p_except"
    /\ active' = Move(t, "except")
    /\ LET e == t.extraction_id
       IN  status' = IF dbOk /\ status[e] # "deleted"
                     THEN [status EXCEPT ![e] = "failed"] ELSE status
    /\ UNCHANGED <<owner, user_queues, processing, file_storage, lock,
                   enq, spawned, fresh, outputs, pvars, rvars, evars, hvars>>

\* ---- process_queue, continued ----

\* except Exception: re-query, write status failed
PQExcept(t, dbOk) ==
    /\ t \in active /\ t.pc = "except"
    /\ active' = Move(t, "finally")
    /\ LET e == t.extraction_id
       IN  status' = IF dbOk /\ status[e] # "deleted"
                     THEN [status EXCEPT ![e] = "failed"] ELSE status
    /\ UNCHANGED <<owner, user_queues, processing, file_storage, lock,
                   enq, spawned, fresh, outputs, pvars, rvars, evars, hvars>>

\* finally: drop the stored bytes, free the slot, schedule the next task
PQFinally(t) ==
    /\ ~lock
    /\ t \in active /\ t.pc = "finally"
    /\ file_storage' = DropBytes(file_storage, t.extraction_id)
    /\ processing' = ReleaseSlot(processing, t.user_id)
    /\ spawned' = Respawn(spawned, t.user_id)
    /\ active' = active \ {t}
    /\ store_raised' = IF store_raised = t.extraction_id THEN None ELSE store_raised
    /\ UNCHANGED <<status, owner, user_queues, lock, enq, fresh, outputs, carried,
                   pvars, rvars, evars>>

\* ---- delete_extraction route ----
DeleteExtraction(j) ==
    /\ LoopFree
    /\ status[j] \notin {"absent", "deleted"}
    /\ status' = [status EXCEPT ![j] = "deleted"]
    /\ UNCHANGED <<owner, user_queues, processing, file_storage, lock,
                   enq, spawned, active, fresh, outputs, pvars, rvars, evars, hvars>>

\* a step of a process_queue task that has taken the slot
TaskStep ==
    \/ \E t \in active, dbOk \in BOOLEAN : PQLoad(t, dbOk)
    \/ \E t \in active, dbOk \in BOOLEAN : PipelineStart(t, dbOk)
    \/ \E t \in active, ok \in BOOLEAN : PipelineStages(t, ok)
    \/ \E t \in active, dbOk \in BOOLEAN : PipelineStore(t, dbOk)
    \/ \E t \in active, dbOk \in BOOLEAN : PipelineTiming(t, dbOk)
    \/ \E t \in active, dbOk \in BOOLEAN : PipelineExcept(t, dbOk)
    \/ \E t \in active, dbOk \in BOOLEAN : PQExcept(t, dbOk)
    \/ \E t \in active : PQFinally(t)

Next ==
    \/ \E u \in Users : EnqueueHigh(u, MaxJobs)
    \/ \E u \in Users : EnqueueLow(u, MaxJobs)
    \/ \E u \in Users : EnqueueMedium(u, MaxJobs)
    \/ MediumLoopStep
    \/ MediumLoopExit
    \/ \E u \in Users : PQStart(u)
    \/ \E t \in active, dbOk \in BOOLEAN : PQLoad(t, dbOk)
    \/ \E t \in active, dbOk \in BOOLEAN : PipelineStart(t, dbOk)
    \/ \E t \in active, ok \in BOOLEAN : PipelineStages(t, ok)
    \/ \E t \in active, dbOk \in BOOLEAN : PipelineStore(t, dbOk)
    \/ \E t \in active, dbOk \in BOOLEAN : PipelineTiming(t, dbOk)
    \/ \E t \in active, dbOk \in BOOLEAN : PipelineExcept(t, dbOk)
    \/ \E t \in active, dbOk \in BOOLEAN : PQExcept(t, dbOk)
    \/ \E t \in active : PQFinally(t)
    \/ \E j \in Jobs : DeleteExtraction(j)

Spec == Init /\ [][Next]_vars

\* One user submitting up to SoloJobs extractions, no row deleted.  A coroutine
\* that can run is run: the event loop keeps executing the coroutine it is in,
\* and it runs every task it has scheduled.
SoloUsers == {1}

SoloNext ==
    \/ \E u \in SoloUsers : EnqueueHigh(u, SoloJobs)
    \/ \E u \in SoloUsers : EnqueueLow(u, SoloJobs)
    \/ \E u \in SoloUsers : EnqueueMedium(u, SoloJobs)
    \/ MediumLoopStep
    \/ MediumLoopExit
    \/ \E u \in SoloUsers : PQStart(u)
    \/ \E t \in active, dbOk \in BOOLEAN : PQLoad(t, dbOk)
    \/ \E t \in active, dbOk \in BOOLEAN : PipelineStart(t, dbOk)
    \/ \E t \in active, ok \in BOOLEAN : PipelineStages(t, ok)
    \/ \E t \in active, dbOk \in BOOLEAN : PipelineStore(t, dbOk)
    \/ \E t \in active, dbOk \in BOOLEAN : PipelineTiming(t, dbOk)
    \/ \E t \in active, dbOk \in BOOLEAN : PipelineExcept(t, dbOk)
    \/ \E t \in active, dbOk \in BOOLEAN : PQExcept(t, dbOk)
    \/ \E t \in active : PQFinally(t)

SoloSpec ==
    /\ Init /\ [][SoloNext]_vars
    /\ WF_vars(MediumLoopStep)
    /\ WF_vars(MediumLoopExit)
    /\ WF_vars(\E u \in SoloUsers : PQStart(u))
    /\ WF_vars(TaskStep)

\* Two users submitting up to DuoJobs extractions of priority low or medium
\* between them, no row deleted,
\* under the same scheduling: a coroutine that can run is run, and every task
\* the event loop has scheduled is run, whichever user it belongs to.
DuoNext ==
    \/ \E u \in Users : EnqueueLow(u, DuoJobs)
    \/ \E u \in Users : EnqueueMedium(u, DuoJobs)
    \/ MediumLoopStep
    \/ MediumLoopExit
    \/ \E u \in Users : PQStart(u)
    \/ \E t \in active, dbOk \in BOOLEAN : PQLoad(t, dbOk)
    \/ \E t \in active, dbOk \in BOOLEAN : PipelineStart(t, dbOk)
    \/ \E t \in active, ok \in BOOLEAN : PipelineStages(t, ok)
    \/ \E t \in active, dbOk \in BOOLEAN : PipelineStore(t, dbOk)
    \/ \E t \in active, dbOk \in BOOLEAN : PipelineTiming(t, dbOk)
    \/ \E t \in active, dbOk \in BOOLEAN : PipelineExcept(t, dbOk)
    \/ \E t \in active, dbOk \in BOOLEAN : PQExcept(t, dbOk)
    \/ \E t \in active : PQFinally(t)

DuoSpec ==
    /\ Init /\ [][DuoNext]_vars
    /\ WF_vars(MediumLoopStep)
    /\ WF_vars(MediumLoopExit)
    /\ \A u \in Users : WF_vars(PQStart(u))
    /\ \A u \in Users : WF_vars(\E t \in active : t.user_id = u /\ TaskStep)

\* ---- one run of run_extraction_pipeline, stage by stage ----

\* the extraction whose run is followed: the first row inserted
TheJob == CHOOSE j \in Jobs : \A k \in Jobs : j <= k

ImageIndexes == 0..(image_bytes_list - 1)

\* outcomes of one model call, as extract_tables_from_image and
\* validate_extraction see them: parse_json_response returned a dict, returned
\* JSON that is not an object (a list, null, a number), raised ValueError, or
\* generate_content raised
CallOutcomes == {"dict", "not_object", "unparseable", "api_error"}

\* a coroutine of a fan-out stage has returned or raised
Finished(task) == task.state \in {"returned", "raised"}

\* a coroutine still running counts as done
AllDone_Mut(tasks) == \E i \in DOMAIN tasks : Finished(tasks[i])

\* `await asyncio.gather(*tasks, return_exceptions=True)` returns when every
\* coroutine has returned or raised
AllDone(tasks) == \A i \in DOMAIN tasks : Finished(tasks[i])

NewTask == [state |-> "created", kind |-> "none", has_index |-> FALSE, image_index |-> 0]

\* sort key `x.get("image_index", 0)`
SortKey(x) == IF x.has_index THEN x.image_index ELSE 0

\* list.sort(key=...): stable, ascending
RECURSIVE SortByImageIndex(_)
SortByImageIndex(results) ==
    IF results = <<>> THEN <<>>
    ELSE LET sorted == SortByImageIndex(SubSeq(results, 1, Len(results) - 1))
             x == results[Len(results)]
             before == SelectSeq(sorted, LAMBDA y : SortKey(y) <= SortKey(x))
             after == SelectSeq(sorted, LAMBDA y : SortKey(y) > SortKey(x))
         IN  before \o <<x>> \o after

\* an exception of one image's coroutine escapes the stage
Captured_Mut(task) == FALSE

\* gather(return_exceptions=True) hands the exception back as that image's result
Captured(task) == task.state = "raised"

\* extract_tables_from_images, after the gather: an error entry for a raised
\* coroutine, `result["image_index"] = idx` for a returned one
ExtractEntry(idx, task) ==
    IF Captured(task)
    THEN [image_index |-> idx, has_index |-> TRUE, kind |-> "error", of |-> idx]
    ELSE [image_index |-> idx, has_index |-> TRUE,
          kind |-> IF task.kind = "unparseable" THEN "error" ELSE "tables", of |-> idx]

\* `result["image_index"] = idx` raises TypeError on a result that is no dict;
\* an exception that was not captured is raised again
ExtractRaises(tasks) ==
    \E i \in DOMAIN tasks :
        \/ tasks[i].state = "returned" /\ tasks[i].kind = "not_object"
        \/ tasks[i].state = "raised" /\ ~Captured(tasks[i])

\* validate_extractions, after the gather: an error entry for a raised
\* coroutine, the returned dict as it is otherwise (validate_extraction's own
\* error dict carries the task's index, a parsed response what the model wrote)
ValidateEntry(idx, task) ==
    IF task.state = "raised"
    THEN [image_index |-> idx, has_index |-> TRUE, kind |-> "error", of |-> idx]
    ELSE IF task.kind = "unparseable"
    THEN [image_index |-> idx, has_index |-> TRUE, kind |-> "error", of |-> idx]
    ELSE [image_index |-> task.image_index, has_index |-> task.has_index,
          kind |-> "comments", of |-> idx]

\* `x.get("image_index", 0)` raises AttributeError on a result that is no dict
ValidateRaises(tasks) ==
    \E i \in DOMAIN tasks : tasks[i].state = "returned" /\ tasks[i].kind = "not_object"

\* the extraction results in task order, as zip(tasks, extraction_results) yields them
ExtractResults(tasks) ==
    [i \in 1..Cardinality(DOMAIN tasks) |-> ExtractEntry(i - 1, tasks[i - 1])]

\* the validations in task order, as zip(tasks, validation_results) yields them
ValidateResults(tasks) ==
    [i \in 1..Cardinality(DOMAIN tasks) |-> ValidateEntry(i - 1, tasks[i - 1])]

\* an unparseable final output raises
FinalizeRaises_Mut(outcome) == outcome \in {"api_error", "unparseable"}

\* generate_final_output raises only what generate_content raises; a response
\* that no strategy can parse becomes the error dict
FinalizeRaises(outcome) == outcome = "api_error"

\* what generate_final_output returns
FinalOutput(outcome) == IF outcome = "unparseable" THEN "error_marker" ELSE "final_data"

\* the check left out
NoImages_Mut(n) == FALSE

\* `if not image_bytes_list: raise ValueError(...)`
NoImages(n) == n = 0

\* the handler's commit left out
MarkFailed_Mut(st, e) == st

\* except handler: `failed_extraction.status = FAILED; db.commit()`
MarkFailed(st, e) == [st EXCEPT ![e] = "failed"]

qrest == <<owner, user_queues, processing, file_storage, lock, enq, spawned, active, fresh>>

FirstUser == CHOOSE u \in Users : \A v \in Users : u <= v

\* process_queue has taken TheJob, written status processing and calls the pipeline
PipeInit ==
    /\ status = [j \in Jobs |-> IF j = TheJob THEN "processing" ELSE "absent"]
    /\ owner = [j \in Jobs |-> IF j = TheJob THEN FirstUser ELSE None]
    /\ user_queues = (FirstUser :> <<>>)
    /\ processing = (FirstUser :> TheJob)
    /\ file_storage = {TheJob}
    /\ lock = FALSE
    /\ enq = IdleFrame
    /\ spawned = [u \in Users |-> 0]
    /\ active = {[user_id |-> FirstUser, extraction_id |-> TheJob, pc |-> "p_start"]}
    /\ fresh = [u \in Users |-> None]
    /\ outputs = [j \in Jobs |-> NoOutputs]
    /\ store_raised = None
    /\ carried = <<>>
    /\ ppc = "start"
    /\ image_bytes_list = 0
    /\ ext = <<>>
    /\ val = <<>>
    /\ extraction_results = <<>>
    /\ validation_results = <<>>
    /\ final_table_data = "null"
    /\ fin = "none"
    /\ calls = [checks |-> 0, requests |-> 0, records |-> 0]
    /\ events = <<>>
    /\ NoRequests
    /\ NoSubscribers

RowThere == status[TheJob] # "deleted"

\* the event has been put on the subscribers' queues
Sent(evs, event) == \E i \in 1..Len(evs) : evs[i] = event

\* `extraction.status = PROCESSING; db.commit()`, the first two broadcasts
PStart(dbOk) ==
    /\ ppc = "start"
    /\ IF dbOk /\ RowThere
       THEN /\ status' = [status EXCEPT ![TheJob] = "processing"]
            /\ events' = events \o <<"status_processing", "step_0">>
            /\ ppc' = "decode"
       ELSE /\ ppc' = "except"
            /\ UNCHANGED <<status, events>>
    /\ UNCHANGED <<outputs, image_bytes_list, ext, val, extraction_results,
                   validation_results, final_table_data, fin, calls, qrest, rvars, evars, hvars>>

\* stage 1: process_input_files raises or yields n images; commit of
\* input_type; the step-1 broadcast; the empty check
PDecode(decoded, n, dbOk) ==
    /\ ppc = "decode"
    /\ IF ~decoded \/ ~dbOk \/ ~RowThere
       THEN /\ ppc' = "except"
            /\ UNCHANGED <<image_bytes_list, ext, events>>
       ELSE /\ image_bytes_list' = n
            /\ events' = Append(events, "step_1")
            /\ IF NoImages(n)
               THEN ppc' = "except" /\ ext' = ext
               ELSE ppc' = "extract" /\ ext' = [i \in 0..(n - 1) |-> NewTask]
    /\ UNCHANGED <<status, outputs, val, extraction_results, validation_results,
                   final_table_data, fin, calls, qrest, rvars, evars, hvars>>

\* generate_content up to the request: the rate-limiter check, then the call
\* handed to a thread
Check(task, ok) == [task EXCEPT !.state = IF ok THEN "in_flight" ELSE "raised"]

Checked(ok) == [calls EXCEPT !.checks = @ + 1, !.requests = IF ok THEN @ + 1 ELSE @]

\* the response: generate_content raises, or records the request and returns,
\* and the caller parses the text
Return(task, outcome, has_index, image_index) ==
    IF outcome = "api_error"
    THEN [task EXCEPT !.state = "raised"]
    ELSE [state |-> "returned", kind |-> outcome,
          has_index |-> outcome = "dict" /\ has_index,
          image_index |-> IF outcome = "dict" /\ has_index THEN image_index ELSE 0]

Recorded(outcome) == IF outcome = "api_error" THEN calls ELSE [calls EXCEPT !.records = @ + 1]

\* stage 2, one image's coroutine
ExtCheck(i, ok) ==
    /\ ppc = "extract"
    /\ i \in DOMAIN ext /\ ext[i].state = "created"
    /\ ext' = [ext EXCEPT ![i] = Check(@, ok)]
    /\ calls' = Checked(ok)
    /\ UNCHANGED <<status, outputs, ppc, image_bytes_list, val, extraction_results,
                   validation_results, final_table_data, fin, events, qrest, rvars, evars, hvars>>

ExtReturn(i, outcome) ==
    /\ ppc = "extract"
    /\ i \in DOMAIN ext /\ ext[i].state = "in_flight"
    /\ ext' = [ext EXCEPT ![i] = Return(@, outcome, FALSE, 0)]
    /\ calls' = Recorded(outcome)
    /\ UNCHANGED <<status, outputs, ppc, image_bytes_list, val, extraction_results,
                   validation_results, final_table_data, fin, events, qrest, rvars, evars, hvars>>

\* the gather returns; results get their index and are sorted; step-2 broadcast;
\* validate_extractions creates one coroutine per extraction result
ExtGather ==
    /\ ppc = "extract"
    /\ AllDone(ext)
    /\ IF ExtractRaises(ext)
       THEN /\ ppc' = "except"
            /\ UNCHANGED <<extraction_results, val, events>>
       ELSE /\ extraction_results' = SortByImageIndex(ExtractResults(ext))
            /\ val' = [i \in 0..(Len(extraction_results') - 1) |-> NewTask]
            /\ events' = Append(events, "step_2")
            /\ ppc' = "validate"
    /\ UNCHANGED <<status, outputs, image_bytes_list, ext, validation_results,
                   final_table_data, fin, calls, qrest, rvars, evars, hvars>>

\* the next image sent along as well
ContextImages_Mut(idx, total_images) ==
    (IF idx > 0 THEN <<idx - 1>> ELSE <<>>) \o <<idx>>
        \o (IF idx < total_images - 1 THEN <<idx + 1>> ELSE <<>>)

\* validate_extractions picks image_bytes_list[idx - 1] (None for idx 0),
\* image_bytes_list[idx] and image_bytes_list[idx + 1]; validate_extraction
\* sends `[current_image]` with the previous image inserted in front, and
\* leaves the next image out. Images are named by their index.
ContextImages(idx, total_images) ==
    (IF idx > 0 THEN <<idx - 1>> ELSE <<>>) \o <<idx>>

\* stage 3, one image's coroutine
ValCheck(i, ok) ==
    /\ ppc = "validate"
    /\ i \in DOMAIN val /\ val[i].state = "created"
    /\ val' = [val EXCEPT ![i] = Check(@, ok)]
    /\ calls' = Checked(ok)
    /\ carried' = IF ok
                  THEN [j \in (DOMAIN carried) \cup {i} |->
                           IF j = i THEN ContextImages(i, image_bytes_list) ELSE carried[j]]
                  ELSE carried
    /\ UNCHANGED <<status, outputs, ppc, image_bytes_list, ext, extraction_results,
                   validation_results, final_table_data, fin, events, store_raised,
                   qrest, rvars, evars>>

ValReturn(i, outcome, has_index, image_index) ==
    /\ ppc = "validate"
    /\ i \in DOMAIN val /\ val[i].state = "in_flight"
    /\ val' = [val EXCEPT ![i] = Return(@, outcome, has_index, image_index)]
    /\ calls' = Recorded(outcome)
    /\ UNCHANGED <<status, outputs, ppc, image_bytes_list, ext, extraction_results,
                   validation_results, final_table_data, fin, events, qrest, rvars, evars, hvars>>

ValGather ==
    /\ ppc = "validate"
    /\ AllDone(val)
    /\ IF ValidateRaises(val)
       THEN /\ ppc' = "except"
            /\ UNCHANGED <<validation_results, events>>
       ELSE /\ validation_results' = SortByImageIndex(ValidateResults(val))
            /\ events' = Append(events, "step_3")
            /\ ppc' = "finalize"
    /\ UNCHANGED <<status, outputs, image_bytes_list, ext, val, extraction_results,
                   final_table_data, fin, calls, qrest, rvars, evars, hvars>>

\* stage 4: the rate-limiter check and the request of generate_final_output
FinCheck(ok) ==
    /\ ppc = "finalize"
    /\ fin = "none"
    /\ calls' = Checked(ok)
    /\ IF ok THEN fin' = "in_flight" /\ ppc' = ppc
             ELSE fin' = "rate_limited" /\ ppc' = "except"
    /\ UNCHANGED <<status, outputs, image_bytes_list, ext, val, extraction_results,
                   validation_results, final_table_data, events, qrest, rvars, evars, hvars>>

\* the response of the finalize call (fin keeps what it was); the step-4 broadcasts
FinReturn(outcome) ==
    /\ ppc = "finalize"
    /\ fin = "in_flight"
    /\ calls' = Recorded(outcome)
    /\ fin' = outcome
    /\ IF FinalizeRaises(outcome)
       THEN /\ ppc' = "except"
            /\ UNCHANGED <<final_table_data, events>>
       ELSE /\ final_table_data' = FinalOutput(outcome)
            /\ events' = events \o <<"step_4", "step_4">>
            /\ ppc' = "store"
    /\ UNCHANGED <<status, outputs, image_bytes_list, ext, val, extraction_results,
                   validation_results, qrest, rvars, evars, hvars>>

\* stage 5: store_extraction_outputs
PStore(dbOk) ==
    /\ ppc = "store"
    /\ LET stored == dbOk /\ RowThere
       IN  /\ ppc' = IF dbOk THEN "timing" ELSE "except"
           /\ status' = IF stored THEN [status EXCEPT ![TheJob] = "completed"] ELSE status
           /\ outputs' = IF stored
                         THEN [outputs EXCEPT ![TheJob] =
                                  StoreOutputs(@, final_table_data, extraction_results,
                                               validation_results)]
                         ELSE outputs
    /\ UNCHANGED <<image_bytes_list, ext, val, extraction_results, validation_results,
                   final_table_data, fin, calls, events, qrest, rvars, evars, hvars>>

\* the timing update, the completion broadcast, return; on a deleted row
\* `extraction` is None and the broadcast's `extraction.id` raises, as does the
\* handler's first line, so the exception leaves the pipeline at once
PTiming(dbOk) ==
    /\ ppc = "timing"
    /\ IF ~dbOk
       THEN ppc' = "except" /\ UNCHANGED <<outputs, events>>
       ELSE IF ~RowThere
       THEN ppc' = "raised" /\ UNCHANGED <<outputs, events>>
       ELSE /\ ppc' = "returned"
            /\ outputs' = [outputs EXCEPT ![TheJob] = TimingWrite(@)]
            /\ events' = Append(events, "status_completed")
    /\ UNCHANGED <<status, image_bytes_list, ext, val, extraction_results,
                   validation_results, final_table_data, fin, calls, qrest, rvars, evars, hvars>>

\* except Exception: rollback, re-query, status failed, commit, the failure
\* broadcast with the error text; `raise`
PExcept(dbOk) ==
    /\ ppc = "except"
    /\ ppc' = "raised"
    /\ IF dbOk /\ RowThere
       THEN /\ status' = MarkFailed(status, TheJob)
            /\ events' = Append(events, "status_failed_with_error")
       ELSE UNCHANGED <<status, events>>
    /\ UNCHANGED <<outputs, image_bytes_list, ext, val, extraction_results,
                   validation_results, final_table_data, fin, calls, qrest, rvars, evars, hvars>>

\* the delete route removes the row while the pipeline waits for a file read
\* or a model call
PDelete ==
    /\ ppc \in {"decode", "extract", "validate", "finalize"}
    /\ RowThere
    /\ status' = [status EXCEPT ![TheJob] = "deleted"]
    /\ UNCHANGED <<outputs, pvars, qrest, rvars, evars, hvars>>

PipeNext ==
    \/ \E dbOk \in BOOLEAN : PStart(dbOk)
    \/ \E decoded, dbOk \in BOOLEAN, n \in 0..MaxImages : PDecode(decoded, n, dbOk)
    \/ \E i \in ImageIndexes, ok \in BOOLEAN : ExtCheck(i, ok)
    \/ \E i \in ImageIndexes, outcome \in CallOutcomes : ExtReturn(i, outcome)
    \/ ExtGather
    \/ \E i \in ImageIndexes, ok \in BOOLEAN : ValCheck(i, ok)
    \/ \E i \in ImageIndexes, outcome \in CallOutcomes, has_index \in BOOLEAN,
          image_index \in ImageIndexes : ValReturn(i, outcome, has_index, image_index)
    \/ ValGather
    \/ \E ok \in BOOLEAN : FinCheck(ok)
    \/ \E outcome \in CallOutcomes : FinReturn(outcome)
    \/ \E dbOk \in BOOLEAN : PStore(dbOk)
    \/ \E dbOk \in BOOLEAN : PTiming(dbOk)
    \/ \E dbOk \in BOOLEAN : PExcept(dbOk)
    \/ PDelete

PipeSpec == PipeInit /\ [][PipeNext]_vars

\* ---- the rate limiter and generate_content (GateSpec) ----

\* _reset_daily_counters: `if last_date is None or last_date.date() < today`
IsNewDay(last_date, day) == last_date = None \/ last_date < day

RECURSIVE CleanOldRequests(_, _)

\* nothing evicted
CleanOldRequests_Mut(dq, cutoff) == dq

\* _clean_old_requests: `while self.user_rpm[user_id] and self.user_rpm[user_id][0] < cutoff`
CleanOldRequests(dq, cutoff) ==
    IF dq # <<>> /\ Head(dq) < cutoff THEN CleanOldRequests(Tail(dq), cutoff) ELSE dq

\* ... and the same loop over user_tpm, whose entries are (timestamp, tokens)
RECURSIVE CleanOldTokens(_, _)
CleanOldTokens(dq, cutoff) ==
    IF dq # <<>> /\ Head(dq)[1] < cutoff THEN CleanOldTokens(Tail(dq), cutoff) ELSE dq

\* `sum(t for _, t in self.user_tpm[user_id])`
RECURSIVE TotalTokens(_)
TotalTokens(dq) == IF dq = <<>> THEN 0 ELSE Head(dq)[2] + TotalTokens(Tail(dq))

\* the token check left out
WithinLimits_Mut(rpm, tpm, rpd, tokens) ==
    /\ ~(Len(rpm) >= rate_limit_rpm)
    /\ ~(rpd >= rate_limit_rpd)

\* check_rate_limit, the three checks on the cleaned state
WithinLimits(rpm, tpm, rpd, tokens) ==
    /\ ~(Len(rpm) >= rate_limit_rpm)
    /\ ~(TotalTokens(tpm) + tokens > rate_limit_tpm)
    /\ ~(rpd >= rate_limit_rpd)

\* the state check_rate_limit(user_id, ...) leaves in the limiter
Cleaned(user_id) ==
    LET reset == IsNewDay(user_rpd_date[user_id], today)
    IN  [rpm |-> CleanOldRequests(user_rpm[user_id], now - window_seconds),
         tpm |-> CleanOldTokens(user_tpm[user_id], now - window_seconds),
         rpd |-> IF reset THEN 0 ELSE user_rpd[user_id],
         rpd_date |-> IF reset THEN today ELSE user_rpd_date[user_id]]

\* what check_rate_limit(user_id, tokens) returns
check_rate_limit(user_id, tokens) ==
    LET c == Cleaned(user_id) IN WithinLimits(c.rpm, c.tpm, c.rpd, tokens)

\* the default wait whatever the window holds
WaitTime_Mut(ok, rpm) == IF ok THEN 0 ELSE default_wait

\* what wait_for_rate_limit returns, given the check's result and the cleaned window
WaitTime(ok, rpm) ==
    IF ok THEN 0
    ELSE IF rpm # <<>>
    THEN LET wait_time == window_seconds - (now - Head(rpm))
         IN  IF wait_time > 0 THEN wait_time ELSE 0
    ELSE default_wait

wait_for_rate_limit(user_id, tokens) ==
    WaitTime(check_rate_limit(user_id, tokens), Cleaned(user_id).rpm)

\* the limiter after check_rate_limit(user_id, ...)
Checks(user_id) ==
    LET c == Cleaned(user_id)
    IN  /\ user_rpm' = [user_rpm EXCEPT ![user_id] = c.rpm]
        /\ user_tpm' = [user_tpm EXCEPT ![user_id] = c.tpm]
        /\ user_rpd' = [user_rpd EXCEPT ![user_id] = c.rpd]
        /\ user_rpd_date' = [user_rpd_date EXCEPT ![user_id] = c.rpd_date]

limiter == <<user_rpm, user_tpm, user_rpd, user_rpd_date, recorded_today>>

\* record_request(user_id, tokens)
record_request(user_id, tokens) ==
    /\ user_rpm' = [user_rpm EXCEPT ![user_id] = Append(@, now)]
    /\ user_tpm' = [user_tpm EXCEPT ![user_id] = Append(@, <<now, tokens>>)]
    /\ user_rpd' = [user_rpd EXCEPT ![user_id] = @ + 1]
    /\ recorded_today' = [recorded_today EXCEPT ![user_id] = @ + 1]
    /\ UNCHANGED user_rpd_date

\* the call goes ahead whatever the second check says
Proceeds_Mut(ok) == TRUE

\* generate_content: `if not rate_limiter.check_rate_limit(...): raise RateLimitError`
Proceeds(ok) == ok

\* the frame after the second check: the request is handed to a thread, or
\* RateLimitError leaves generate_content
AfterCheck(frame, ok) ==
    IF Proceeds(ok) THEN [frame EXCEPT !.pc = "request"] ELSE IdleCall

RaisedIfNot(ok) == IF Proceeds(ok) THEN "none" ELSE "RateLimitError"

Did(name, frame, ok, wait, result) ==
    [name |-> name, user_id |-> frame.user_id, tokens |-> frame.tokens, ok |-> ok,
     wait |-> wait, result |-> result]

gothers == <<status, outputs, qrest, pvars, evars, hvars, thread, log, handed>>

\* generate_content up to its first suspension: wait_for_rate_limit, then
\* either asyncio.sleep(wait_time) or, with no wait, the second check at once
GCStart(c, user_id, tokens) ==
    /\ gc[c].pc = "idle"
    /\ \A d \in Slots : d < c => gc[d].pc # "idle"
    /\ started < MaxCalls
    /\ started' = started + 1
    /\ LET ok == check_rate_limit(user_id, tokens)
           wait_time == wait_for_rate_limit(user_id, tokens)
           frame == [IdleCall EXCEPT !.user_id = user_id, !.tokens = tokens]
       IN  /\ Checks(user_id)
           /\ IF wait_time > 0
              THEN /\ gc' = [gc EXCEPT ![c] = [frame EXCEPT !.pc = "sleep",
                                                            !.wake = now + wait_time]]
                   /\ op' = Did("start", frame, ok, wait_time, "none")
              ELSE /\ gc' = [gc EXCEPT ![c] = AfterCheck(frame, ok)]
                   /\ op' = Did("start", frame, ok, wait_time, RaisedIfNot(ok))
    /\ UNCHANGED <<now, today, recorded_today, gothers>>

\* the sleep is over: the second check
GCWake(c) ==
    /\ gc[c].pc = "sleep"
    /\ now >= gc[c].wake
    /\ LET ok == check_rate_limit(gc[c].user_id, gc[c].tokens)
       IN  /\ Checks(gc[c].user_id)
           /\ gc' = [gc EXCEPT ![c] = AfterCheck(@, ok)]
           /\ op' = Did("recheck", gc[c], ok, 0, RaisedIfNot(ok))
    /\ UNCHANGED <<now, today, started, recorded_today, gothers>>

\* nothing recorded for a response
RecordUsage_Mut(result, user_id, tokens) == UNCHANGED limiter

\* `response = await asyncio.to_thread(...)`, then
\* `rate_limiter.record_request(user_id, tokens)` if no exception came out
RecordUsage(result, user_id, tokens) ==
    IF result = "response" THEN record_request(user_id, tokens) ELSE UNCHANGED limiter

\* what comes out of the thread that runs _call_openai_with_retry: a response,
\* or an exception that leaves generate_content as Exception("OpenAI API error: ...")
ThreadResults == {"response", "Exception"}

\* the thread is done: generate_content returns the response or raises
GCReturn(c, result) ==
    /\ gc[c].pc = "request"
    /\ RecordUsage(result, gc[c].user_id, gc[c].tokens)
    /\ gc' = [gc EXCEPT ![c] = IdleCall]
    /\ op' = Did("return", gc[c], TRUE, 0, result)
    /\ UNCHANGED <<now, today, started, gothers>>

\* time passes
Tick ==
    /\ now + TickSeconds <= MaxNow
    /\ now' = now + TickSeconds
    /\ op' = [NoOp EXCEPT !.name = "tick"]
    /\ UNCHANGED <<today, limiter, gc, started, gothers>>

\* midnight passes
Midnight ==
    /\ today < MaxDay
    /\ today' = today + 1
    /\ recorded_today' = [u \in Users |-> 0]
    /\ op' = [NoOp EXCEPT !.name = "midnight"]
    /\ UNCHANGED <<now, user_rpm, user_tpm, user_rpd, user_rpd_date, gc, started, gothers>>

GateNext ==
    \/ \E c \in Slots, tokens \in 1..MaxTokens : GCStart(c, FirstUser, tokens)
    \/ \E c \in Slots : GCWake(c)
    \/ \E c \in Slots, result \in ThreadResults : GCReturn(c, result)
    \/ Tick
    \/ Midnight

GateSpec == Init /\ [][GateNext]_vars

\* ---- _call_openai_with_retry (RetrySpec) ----

tothers == <<status, outputs, qrest, pvars, evars, hvars, now, today, limiter, gc, started, op>>

\* @retry(stop=stop_after_attempt(settings.max_retries),
\*        retry=retry_if_exception_type(OpenAIRateLimitError))
Retried(outcome, attempt) == outcome = "rate_limit" /\ attempt < max_retries

\* generate_content: `await asyncio.to_thread(self._call_openai_with_retry, ...)`
TCall ==
    /\ thread.pc \in {"none", "returned", "raised"}
    /\ handed < MaxCalls
    /\ handed' = handed + 1
    /\ thread' = [pc |-> "responses", attempt |-> 1]
    /\ log' = <<>>
    /\ UNCHANGED tothers

\* _call_openai: client.responses.create; `except (AttributeError, Exception)`
\* leads every failure to the Chat Completions call
TResponses(outcome) ==
    /\ thread.pc = "responses"
    /\ log' = Append(log, outcome)
    /\ thread' = [thread EXCEPT !.pc = IF outcome = "ok" THEN "returned" ELSE "chat"]
    /\ UNCHANGED <<handed, tothers>>

\* _call_openai: client.chat.completions.create; a rate-limit error is tried
\* again after the backoff until the attempts are used up, and then tenacity's
\* RetryError leaves the thread, as any other error does at once
TChat(outcome) ==
    /\ thread.pc = "chat"
    /\ log' = Append(log, outcome)
    /\ thread' = IF outcome = "ok" THEN [thread EXCEPT !.pc = "returned"]
                 ELSE IF Retried(outcome, thread.attempt)
                 THEN [pc |-> "responses", attempt |-> thread.attempt + 1]
                 ELSE [thread EXCEPT !.pc = "raised"]
    /\ UNCHANGED <<handed, tothers>>

RetryNext ==
    \/ TCall
    \/ \E outcome \in ProviderOutcomes : TResponses(outcome)
    \/ \E outcome \in ProviderOutcomes : TChat(outcome)

RetrySpec == Init /\ [][RetryNext]_vars

\* ---- the event manager (EventSpec) ----

\* self._connections.get(extraction_id, set())
Subscribers(conn, extraction_id) ==
    IF extraction_id \in DOMAIN conn THEN conn[extraction_id] ELSE {}

\* subscribe: `if extraction_id not in self._connections: ... = set()`, then `.add(queue)`
Add(conn, extraction_id, queue) ==
    [x \in (DOMAIN conn) \cup {extraction_id} |->
        IF x = extraction_id THEN Subscribers(conn, x) \cup {queue} ELSE conn[x]]

\* the emptied entry kept
Discard_Mut(conn, extraction_id, queue) ==
    IF extraction_id \in DOMAIN conn
    THEN [conn EXCEPT ![extraction_id] = @ \ {queue}]
    ELSE conn

\* unsubscribe: `.discard(queue)`, and `del self._connections[extraction_id]`
\* when the set is left empty
Discard(conn, extraction_id, queue) ==
    IF extraction_id \in DOMAIN conn
    THEN IF conn[extraction_id] \ {queue} = {}
         THEN [x \in (DOMAIN conn) \ {extraction_id} |-> conn[x]]
         ELSE [conn EXCEPT ![extraction_id] = @ \ {queue}]
    ELSE conn

\* every registered queue gets the event
Put_Mut(ch, conn, extraction_id, event_data) ==
    [q \in DOMAIN ch |->
        IF \E x \in DOMAIN conn : q \in conn[x] THEN Append(ch[q], event_data) ELSE ch[q]]

\* broadcast: `queues = list(self._connections[extraction_id])`, `queue.put(event_data)`
Put(ch, conn, extraction_id, event_data) ==
    [q \in DOMAIN ch |->
        IF q \in Subscribers(conn, extraction_id) THEN Append(ch[q], event_data) ELSE ch[q]]

EDid(name, extraction_id, queue, event_data) ==
    [name |-> name, extraction_id |-> extraction_id, queue |-> queue,
     event_data |-> event_data]

eothers == <<status, outputs, qrest, pvars, rvars, hvars>>

\* subscribe(extraction_id): a new asyncio.Queue, registered and returned
subscribe(extraction_id) ==
    /\ Len(channel) < MaxQueues
    /\ LET queue == Len(channel) + 1
       IN  /\ connections' = Add(connections, extraction_id, queue)
           /\ channel' = Append(channel, <<>>)
           /\ eop' = EDid("subscribe", extraction_id, queue, "none")
    /\ UNCHANGED <<stream, broadcasts, eothers>>

\* unsubscribe(extraction_id, queue)
unsubscribe(extraction_id, queue) ==
    /\ queue \in DOMAIN channel
    /\ connections' = Discard(connections, extraction_id, queue)
    /\ eop' = EDid("unsubscribe", extraction_id, queue, "none")
    /\ UNCHANGED <<channel, stream, broadcasts, eothers>>

\* broadcast(extraction_id, event_data)
broadcast(extraction_id, event_data) ==
    /\ \A q \in DOMAIN channel : Len(channel[q]) < MaxPending
    /\ channel' = Put(channel, connections, extraction_id, event_data)
    /\ eop' = EDid("broadcast", extraction_id, 0, event_data)
    /\ UNCHANGED <<connections, stream, broadcasts, eothers>>

\* create_sse_stream: `event_data = await asyncio.wait_for(queue.get(), ...)`
StreamGet(queue) ==
    /\ queue \in DOMAIN channel
    /\ channel[queue] # <<>>
    /\ channel' = [channel EXCEPT ![queue] = Tail(@)]
    /\ eop' = EDid("get", None, queue, Head(channel[queue]))
    /\ UNCHANGED <<connections, stream, broadcasts, eothers>>

EventNext ==
    \/ \E extraction_id \in ExtractionIds : subscribe(extraction_id)
    \/ \E extraction_id \in ExtractionIds, queue \in 1..MaxQueues :
          unsubscribe(extraction_id, queue)
    \/ \E extraction_id \in ExtractionIds, event_data \in EventData :
          broadcast(extraction_id, event_data)
    \/ \E queue \in 1..MaxQueues : StreamGet(queue)

EventSpec == Init /\ [][EventNext]_vars

\* ---- the status streams (StreamSpec) ----

\* create_sse_stream up to its first yield: the generator holds extraction_id
\* and the queue, and has sent the connection message
Connected(extraction_id) ==
    [extraction_id |-> extraction_id, closed |-> FALSE, out |-> <<"connected">>,
     since |-> Len(broadcasts)]

\* a generator that has finished: its frame and its queue are gone
EndOfStream == [extraction_id |-> None, closed |-> TRUE, out |-> <<>>, since |-> 0]

sothers == <<eop, eothers>>

\* create_sse_stream: `queue = await self.subscribe(extraction_id)` and the
\* yield of the connection message
StreamOpen(extraction_id) ==
    /\ Len(stream) < MaxQueues
    /\ connections' = Add(connections, extraction_id, Len(channel) + 1)
    /\ channel' = Append(channel, <<>>)
    /\ stream' = Append(stream, Connected(extraction_id))
    /\ UNCHANGED <<broadcasts, sothers>>

\* a subscriber with unread events makes the broadcast give up
StreamBroadcast_Mut(extraction_id, event_data) ==
    /\ Len(broadcasts) < MaxEvents
    /\ channel' = IF \E q \in Subscribers(connections, extraction_id) : channel[q] # <<>>
                  THEN channel
                  ELSE Put(channel, connections, extraction_id, event_data)
    /\ broadcasts' = Append(broadcasts, <<extraction_id, event_data>>)
    /\ UNCHANGED <<connections, stream, sothers>>

\* broadcast(extraction_id, event_data), with streams open: `await queue.put`
\* on an unbounded asyncio.Queue returns at once and does not raise
StreamBroadcast(extraction_id, event_data) ==
    /\ Len(broadcasts) < MaxEvents
    /\ channel' = Put(channel, connections, extraction_id, event_data)
    /\ broadcasts' = Append(broadcasts, <<extraction_id, event_data>>)
    /\ UNCHANGED <<connections, stream, sothers>>

\* the newest waiting event taken instead of the oldest
StreamEvent_Mut(queue) ==
    /\ queue \in DOMAIN stream
    /\ ~stream[queue].closed
    /\ channel[queue] # <<>>
    /\ channel' = [channel EXCEPT ![queue] = SubSeq(@, 1, Len(@) - 1)]
    /\ stream' = [stream EXCEPT ![queue].out =
                      Append(@, channel[queue][Len(channel[queue])])]
    /\ UNCHANGED <<connections, broadcasts, sothers>>

\* create_sse_stream: `event_data = await asyncio.wait_for(queue.get(), ...)`
\* and the yield of the event. (On a timeout the loop yields a keepalive
\* comment line, which is not a message, and goes round: nothing changes.)
StreamEvent(queue) ==
    /\ queue \in DOMAIN stream
    /\ ~stream[queue].closed
    /\ channel[queue] # <<>>
    /\ channel' = [channel EXCEPT ![queue] = Tail(@)]
    /\ stream' = [stream EXCEPT ![queue].out = Append(@, Head(channel[queue]))]
    /\ UNCHANGED <<connections, broadcasts, sothers>>

\* create_sse_stream: `if await request.is_disconnected(): break` (or the
\* generator closed at a yield), then `finally: await self.unsubscribe(...)`
StreamClose(queue) ==
    /\ queue \in DOMAIN stream
    /\ ~stream[queue].closed
    /\ connections' = Discard(connections, stream[queue].extraction_id, queue)
    /\ stream' = [stream EXCEPT ![queue] = EndOfStream]
    /\ channel' = [channel EXCEPT ![queue] = <<>>]
    /\ UNCHANGED <<broadcasts, sothers>>

StreamNext ==
    \/ \E extraction_id \in ExtractionIds : StreamOpen(extraction_id)
    \/ \E extraction_id \in ExtractionIds, event_data \in EventData :
          StreamBroadcast(extraction_id, event_data)
    \/ \E queue \in 1..MaxQueues : StreamEvent(queue)
    \/ \E queue \in 1..MaxQueues : StreamClose(queue)

\* a stream that has an event waiting takes it
StreamSpec ==
    Init /\ [][StreamNext]_vars /\ WF_vars(\E queue \in 1..MaxQueues : StreamEvent(queue))

\* ---- properties ----

OwnedBy(u) == {j \in Jobs : owner[j] = u}

\* a process_queue task holds extraction j
InAttempt(j) == \E t \in active : t.extraction_id = j

TasksOf(u) == {t \in active : t.user_id = u}

\* position of extraction j in queue q, 0 when it is not queued
Pos(q, j) == IF \E i \in 1..Len(q) : q[i][2] = j
             THEN CHOOSE i \in 1..Len(q) : q[i][2] = j ELSE 0

\* an enqueue_extraction call for a new extraction j with priority p returns in this step
Returns(j, p) ==
    /\ status[j] = "absent" \/ (enq.pc = "loop" /\ enq.extraction_id = j)
    /\ enq'.pc = "idle"
    /\ status'[j] = "pending"
    /\ \E i \in 1..Len(user_queues'[owner'[j]]) : user_queues'[owner'[j]][i] = <<p, j>>

\* a process_queue task of user u takes the slot in this step
Dequeues(u) == ProcessingGet(u) = None /\ u \in DOMAIN processing' /\ processing'[u] # None

\* C1 as stated: for every user, at most one extraction owned by the user has
\* the persisted status processing.
C1_Original ==
    \A u \in Users : Cardinality({j \in OwnedBy(u) : status[j] = "processing"}) <= 1

\* C1 amended: for every user, at most one extraction with the persisted status
\* processing is held by a process_queue task, and it is the one in the user's
\* processing slot; other rows at processing belong to attempts that have ended.
C1_Amended ==
    \A u \in Users :
        LET running == {j \in OwnedBy(u) : status[j] = "processing" /\ InAttempt(j)}
        IN  /\ Cardinality(running) <= 1
            /\ \A j \in running : ProcessingGet(u) = j

\* a row left at processing by an ended attempt, next to the job now processing
C1_Witness ==
    \E u \in Users : \E j, k \in OwnedBy(u) :
        /\ j # k
        /\ status[j] = "processing" /\ ~InAttempt(j)
        /\ status[k] = "processing" /\ InAttempt(k) /\ ProcessingGet(u) = k

\* C2: at most one process_queue task per user is past the slot check (so at
\* most one pipeline run is in flight), and a task that finds the slot taken
\* returns without dequeuing anything.
C2_OnePipelinePerUser ==
    /\ [](\A u \in Users : Cardinality(TasksOf(u)) <= 1)
    /\ [][\A u \in Users :
            (spawned'[u] = spawned[u] - 1 /\ ProcessingGet(u) # None)
            => (user_queues' = user_queues /\ processing' = processing /\ active' = active)]_vars

\* a second task is waiting to run while the slot is taken and a job is pending
C2_Witness ==
    \E u \in Users : ProcessingGet(u) # None /\ spawned[u] > 0 /\ QueueOf(u) # <<>>
                     /\ Cardinality(TasksOf(u)) = 1

\* C5: a high enqueue puts the new job ahead of every medium and low entry that
\* was waiting, and leaves the user's processing slot as it was.
C5_HighAheadNoPreempt ==
    [][\A j \in Jobs : Returns(j, "high") =>
         LET u == owner'[j]
             q == QueueOf(u)
             q2 == user_queues'[u]
         IN  /\ \A i \in 1..Len(q) :
                    q[i][1] \in {"medium", "low"}
                    => (Pos(q2, q[i][2]) > 0 /\ Pos(q2, j) < Pos(q2, q[i][2]))
             /\ processing'[u] = ProcessingGet(u)]_vars

\* a busy user whose newest job is high and heads a queue holding an older medium or low job
C5_Witness ==
    \E u \in Users :
        /\ ProcessingGet(u) # None
        /\ Len(QueueOf(u)) >= 2
        /\ QueueOf(u)[1][1] = "high"
        /\ \E i \in 2..Len(QueueOf(u)) :
               /\ QueueOf(u)[i][1] \in {"medium", "low"}
               /\ QueueOf(u)[i][2] < QueueOf(u)[1][2]

\* C7: a low enqueue leaves the previous entries in place and order and adds
\* the new job as the last entry.
C7_LowAppends ==
    [][\A j \in Jobs : Returns(j, "low") =>
         LET u == owner'[j]
             q == QueueOf(u)
             q2 == user_queues'[u]
         IN  /\ Len(q2) = Len(q) + 1
             /\ q2[Len(q2)] = <<"low", j>>
             /\ \A i \in 1..Len(q) : q2[i] = q[i]]_vars

\* the newest job of a user is low and is the last of at least two pending entries
C7_Witness ==
    \E u \in Users :
        LET q == QueueOf(u)
        IN  /\ Len(q) >= 2
            /\ q[Len(q)][1] = "low"
            /\ \A i \in 1..(Len(q) - 1) : q[i][2] < q[Len(q)][2]

\* ids of the entries of queue q, in order
Ids(q) == [i \in 1..Len(q) |-> q[i][2]]

\* the entries the running enqueue_extraction call has in hand or left queued
InHand == QueueOf(enq.user_id) \o enq.temp_items

Holds(q, item) == \E i \in 1..Len(q) : q[i] = item

\* C3 as stated: once Low(1), Medium(2), High(3), Medium(4) have been submitted
\* by one user (job 1 taken first or still pending), the fourth enqueue call
\* returns and the pending order is 3, 2, 4 (then 1 if it is still pending).
C3_Original ==
    (/\ enq.pc = "loop" /\ enq.extraction_id = 4
     /\ Holds(InHand, <<"medium", 2>>) /\ Holds(InHand, <<"high", 3>>)
     /\ (ProcessingGet(enq.user_id) = 1 \/ Holds(InHand, <<"low", 1>>)))
    ~> (/\ enq.pc = "idle"
        /\ \E u \in Users : Ids(QueueOf(u)) \in {<<3, 2, 4>>, <<3, 2, 4, 1>>})

\* C4 as stated: the job a user's task dequeues is older than every pending job
\* of the same priority.
C4_Original ==
    [][\A u \in Users : Dequeues(u) =>
         LET q == user_queues[u]
         IN  \A i \in 2..Len(q) : q[i][1] = q[1][1] => q[1][2] < q[i][2]]_vars

\* every accepted job that no task holds is queued exactly once for user u
NothingLost(u) ==
    \A k \in OwnedBy(u) :
        (k \in file_storage /\ ~InAttempt(k))
        => Cardinality({i \in 1..Len(QueueOf(u)) : QueueOf(u)[i][2] = k}) = 1

\* job j is queued behind every high entry and ahead of every low entry
MediumPlaced(j) ==
    LET q == QueueOf(owner[j])
    IN  /\ Pos(q, j) > 0
        /\ \A i \in 1..Len(q) : /\ q[i][1] = "high" => i < Pos(q, j)
                                /\ q[i][1] = "low" => i > Pos(q, j)
        /\ NothingLost(owner[j])

\* C6 as stated: a medium enqueue on any pending queue returns with the new job
\* behind every queued high entry and ahead of every queued low entry, every
\* earlier entry still queued once.
C6_Original ==
    \A j \in Jobs :
        (enq.pc = "loop" /\ enq.extraction_id = j) ~> (enq.pc = "idle" /\ MediumPlaced(j))

\* C8 as stated: the job enqueued for a user with nothing processing and nothing
\* pending is the next job dequeued for that user.
C8_Original ==
    [][\A u \in Users : (Dequeues(u) /\ fresh[u] # None) => processing'[u] = fresh[u]]_vars

\* C8 amended: the enqueue call for a user with nothing processing and nothing
\* pending schedules a process_queue task itself, and that job is the next one
\* dequeued for the user unless another job was enqueued for the user before
\* the task ran.
C8_Amended ==
    /\ [](\A u \in Users : (fresh[u] # None /\ LoopFree) => spawned[u] > 0)
    /\ [][\A u \in Users :
            (Dequeues(u) /\ fresh[u] # None /\ Len(user_queues[u]) = 1)
            => (/\ processing'[u] = fresh[u]
                /\ \E t \in active' : t.user_id = u /\ t.extraction_id = fresh[u])]_vars

\* the job enqueued for an idle user is alone in the queue and its task is scheduled
C8_Witness ==
    \E u \in Users :
        /\ fresh[u] # None /\ LoopFree /\ spawned[u] > 0
        /\ ProcessingGet(u) = None
        /\ Ids(QueueOf(u)) = <<fresh[u]>>

TaskEnds(t) == \A s \in active' : s.user_id # t.user_id \/ s.extraction_id # t.extraction_id

\* C10: whenever a task that took the slot ends, the slot is None and one more
\* process_queue task is scheduled for the user; a taken slot always has its task.
C10_SlotReleased ==
    /\ [][\A t \in active : TaskEnds(t) =>
            /\ processing'[t.user_id] = None
            /\ spawned'[t.user_id] = spawned[t.user_id] + 1]_vars
    /\ [](\A u \in Users : ProcessingGet(u) # None =>
            \E t \in TasksOf(u) : t.extraction_id = ProcessingGet(u))

\* an attempt that ended in the exception handler: slot free, bytes dropped, task scheduled
C10_Witness ==
    \E u \in Users : \E j \in OwnedBy(u) :
        /\ status[j] = "failed" /\ j \notin file_storage /\ ~InAttempt(j)
        /\ u \in DOMAIN processing /\ processing[u] = None
        /\ spawned[u] > 0

\* extraction j is in the hands of the running enqueue_extraction call
BeingEnqueued(j) ==
    /\ enq.pc = "loop"
    /\ \/ enq.extraction_id = j
       \/ \E i \in 1..Len(enq.temp_items) : enq.temp_items[i][2] = j

\* extraction j waits in its user's queue
Queued(j) == \E u \in DOMAIN user_queues : Pos(user_queues[u], j) > 0

Allowed(from, to) ==
    \/ to = "deleted"
    \/ from = "absent" /\ to = "pending"
    \/ from = "pending" /\ to = "processing"
    \/ from = "processing" /\ to \in {"completed", "failed"}

\* C12 as stated: every change of a row's status is Pending -> Processing,
\* Processing -> Completed or Processing -> Failed (besides the row's creation
\* and its deletion by the delete route).
C12_Original ==
    [][\A j \in Jobs : status'[j] # status[j] => Allowed(status[j], status'[j])]_vars

\* C13 as stated: a step that starts with a row at Completed or Failed leaves
\* the row's table_data, llm_extraction_output, llm_validation_output and
\* llm_final_output as they were.
C13_Original ==
    [][\A j \in Jobs : status[j] \in {"completed", "failed"} => outputs'[j] = outputs[j]]_vars

\* C14 as stated: a row whose status is Failed has no table_data.
C14_Original ==
    \A j \in Jobs : status[j] = "failed" => outputs[j].table_data = "null"

\* a merged result list: one entry per image, entry i carrying image index i
WellMerged(results) ==
    /\ Len(results) = image_bytes_list
    /\ \A i \in 1..Len(results) : results[i].has_index /\ results[i].image_index = i - 1

\* C15 as stated: whatever each image's model call returned and in whatever
\* order the calls completed, the list the extract stage hands on and the list
\* the validate stage hands on have one entry per image, in image order, the
\* entry at position i carrying image index i.
C15_Original ==
    /\ Sent(events, "step_2") => WellMerged(extraction_results)
    /\ Sent(events, "step_3") => WellMerged(validation_results)

\* generate_final_output has returned
FinReturned == fin \in {"dict", "not_object", "unparseable"}

\* image i's extraction failed: generate_content raised, or the response could
\* not be parsed
ExtFailed(i) ==
    \/ ext[i].state = "raised"
    \/ ext[i].state = "returned" /\ ext[i].kind = "unparseable"

ErrorAt(results, i) == results[i + 1].kind = "error" /\ results[i + 1].image_index = i

\* C16: failed extraction coroutines do not abort the job.  When the extract
\* stage ends and every response that parsed is an object, the stage hands on
\* one entry per image, an error entry at each failed image's index, and the
\* validate stage gets a coroutine for every image; a row at Completed has had
\* every validation call and the finalize call finished and stores the error
\* entries at those indexes; a pipeline that returns leaves the row Completed.
C16_ImageFailureIsolated ==
    /\ [][(ppc = "extract" /\ ppc' # "extract"
            /\ \A i \in DOMAIN ext : ext[i].kind # "not_object")
           => /\ ppc' = "validate"
              /\ Len(extraction_results') = image_bytes_list
              /\ \A i \in DOMAIN ext : ExtFailed(i) => ErrorAt(extraction_results', i)
              /\ DOMAIN val' = DOMAIN ext]_vars
    /\ [](status[TheJob] = "completed"
           => /\ \A i \in DOMAIN ext : Finished(val[i])
              /\ FinReturned
              /\ \A i \in DOMAIN ext :
                     ExtFailed(i) => ErrorAt(outputs[TheJob].llm_extraction_output, i))
    /\ [](ppc = "returned" => status[TheJob] = "completed")

\* a returned run of two or more images, one failed in extraction, one not
C16_Witness ==
    /\ ppc = "returned" /\ status[TheJob] = "completed"
    /\ \E i, j \in DOMAIN ext : ExtFailed(i) /\ ~ExtFailed(j)

\* the model call of a fan-out coroutine has been issued
Issued(task) == task.state # "created"

\* order of the positions of a run
Rank(pos) ==
    CASE pos = "start" -> 0
      [] pos = "decode" -> 1
      [] pos = "extract" -> 2
      [] pos = "validate" -> 3
      [] pos = "finalize" -> 4
      [] pos = "store" -> 5
      [] pos = "timing" -> 6
      [] OTHER -> 7

\* C17: the stages run in order and their ends are barriers.  A validation
\* call is issued only when every extraction coroutine of the job has returned
\* or raised, the finalize call only when every validation coroutine has, and
\* the store step runs only after the finalize call returned; the run never
\* goes back to an earlier stage.
C17_StageBarriers ==
    /\ []((\E i \in DOMAIN val : Issued(val[i]))
           => (ext # <<>> /\ \A i \in DOMAIN ext : Finished(ext[i])))
    /\ [](fin # "none"
           => (val # <<>> /\ DOMAIN val = DOMAIN ext /\ \A i \in DOMAIN val : Finished(val[i])))
    /\ [](ppc \in {"store", "timing", "returned"} => FinReturned)
    /\ [][Rank(ppc') >= Rank(ppc)]_vars

\* the second stage is over with a raised coroutine among two or more, and the
\* third has one call in flight and one not yet issued
C17_Witness ==
    /\ ppc = "validate"
    /\ \E i \in DOMAIN ext : ext[i].state = "raised"
    /\ \E i, j \in DOMAIN val : val[i].state = "in_flight" /\ val[j].state = "created"

NoCalls == calls = [checks |-> 0, requests |-> 0, records |-> 0]

\* C18: a run whose stage 1 raises or yields no image goes to the except
\* handler at once and ends by re-raising; as long as stage 1 has yielded no
\* image no rate-limiter check, request or usage record is made and no
\* coroutine of a later stage exists; the row is never Completed, and it is
\* Failed once the handler's status write went through.
C18_DecodeFailureNoModelCall ==
    /\ [][(ppc = "decode" /\ ppc' # "decode" /\ image_bytes_list' = 0) => ppc' = "except"]_vars
    /\ [](image_bytes_list = 0 => (NoCalls /\ ext = <<>> /\ val = <<>> /\ fin = "none"))
    /\ []((ppc = "raised" /\ image_bytes_list = 0)
           => /\ status[TheJob] \in {"failed", "processing", "deleted"}
              /\ Sent(events, "status_failed_with_error") => status[TheJob] = "failed")

\* stage 1 yielded an empty list: the job has failed without a model call
C18_Witness ==
    /\ ppc = "raised" /\ Sent(events, "step_1") /\ image_bytes_list = 0
    /\ status[TheJob] = "failed" /\ NoCalls

\* C19: a finalize response that no strategy can parse does not fail the job.
\* The step that receives it makes the error marker the final table data and
\* goes on to the store step; a row stored after it is Completed with the
\* error marker as table_data, and a run that returns after it leaves the row
\* Completed.
C19_UnparseableFinalCompletes ==
    /\ [][(fin = "in_flight" /\ fin' = "unparseable")
           => (ppc' = "store" /\ final_table_data' = "error_marker")]_vars
    /\ []((fin = "unparseable" /\ status[TheJob] = "completed")
           => outputs[TheJob].table_data = "error_marker")
    /\ []((fin = "unparseable" /\ ppc = "returned") => status[TheJob] = "completed")

\* a returned run whose final output could not be parsed
C19_Witness ==
    /\ fin = "unparseable" /\ ppc = "returned"
    /\ status[TheJob] = "completed" /\ outputs[TheJob].table_data = "error_marker"

\* the except handler of the run finishes in this step
HandlerEnds == ppc = "except" /\ ppc' # "except"

FailureEvent == "status_failed_with_error"

\* C20 as stated: the handler of an exception that escaped a stage leaves the
\* row Failed, has broadcast the failure event with the error text, and
\* re-raises.
C20_Original ==
    [][HandlerEnds => (/\ status'[TheJob] = "failed"
                       /\ Sent(events', FailureEvent)
                       /\ ppc' = "raised")]_vars

\* C20 amended: the handler always re-raises; it sets the row Failed and
\* broadcasts the failure event together, when its re-query finds the row and
\* its commit succeeds; otherwise it leaves status and events as they were, and
\* it never touches a row that is gone.  No failure event exists without it.
C20_Amended ==
    /\ [][HandlerEnds =>
            /\ ppc' = "raised"
            /\ \/ status'[TheJob] = "failed" /\ events' = Append(events, FailureEvent) /\ RowThere
               \/ status' = status /\ events' = events]_vars
    /\ [](Sent(events, FailureEvent) => (ppc = "raised" /\ status[TheJob] = "failed"))
    /\ [][ppc = "raised" => ppc' = "raised"]_vars

\* the finalize call raised and the handler marked the job Failed
C20_Witness ==
    /\ ppc = "raised" /\ fin = "api_error"
    /\ status[TheJob] = "failed" /\ Sent(events, FailureEvent)

\* the step numbers of the step_update events in evs, in the order broadcast
RECURSIVE StepsOf(_)
StepsOf(evs) ==
    IF evs = <<>> THEN <<>>
    ELSE LET rest == StepsOf(Tail(evs))
             e == Head(evs)
         IN  IF e = "step_0" THEN <<0>> \o rest
             ELSE IF e = "step_1" THEN <<1>> \o rest
             ELSE IF e = "step_2" THEN <<2>> \o rest
             ELSE IF e = "step_3" THEN <<3>> \o rest
             ELSE IF e = "step_4" THEN <<4>> \o rest
             ELSE IF e = "step_5" THEN <<5>> \o rest
             ELSE rest

\* sub is a subsequence of seq
RECURSIVE IsSubsequence(_, _)
IsSubsequence(sub, seq) ==
    IF sub = <<>> THEN TRUE
    ELSE IF seq = <<>> THEN FALSE
    ELSE IF Head(sub) = Head(seq) THEN IsSubsequence(Tail(sub), Tail(seq))
    ELSE IsSubsequence(sub, Tail(seq))

\* C21 as stated: when a pipeline run has returned, the step numbers
\* 0, 1, 2, 3, 4, 5 are a subsequence of the step numbers of the events
\* broadcast for the job.
C21_Original ==
    ppc = "returned" => IsSubsequence(<<0, 1, 2, 3, 4, 5>>, StepsOf(events))

\* ---- the rate limiter ----

\* timestamps of dq that lie in the 60-second window that ends at time t
InWindow(dq, t) == {i \in 1..Len(dq) : dq[i] >= t - window_seconds}

\* tokens recorded in the window that ends at time t
RECURSIVE TokensInWindow(_, _)
TokensInWindow(dq, t) ==
    IF dq = <<>> THEN 0
    ELSE (IF Head(dq)[1] >= t - window_seconds THEN Head(dq)[2] ELSE 0)
         + TokensInWindow(Tail(dq), t)

\* the daily counter of user u once the reset for a new day is applied
CountedToday(u) ==
    IF user_rpd_date[u] = None \/ user_rpd_date[u] < today THEN 0 ELSE user_rpd[u]

\* this step calls check_rate_limit (from wait_for_rate_limit or from the
\* second check of generate_content)
ChecksNow == op'.name \in {"start", "recheck"}

\* C22: once rate_limit_rpm requests of a user are recorded within the current
\* 60-second window, check_rate_limit answers False whatever the token
\* estimate; when exactly rate_limit_rpm requests are held, the oldest has left
\* the window and neither the token nor the daily ceiling is exceeded, it
\* answers True.
C22_RpmCeiling ==
    [][ChecksNow =>
         LET u == op'.user_id
         IN  /\ Cardinality(InWindow(user_rpm[u], now)) >= rate_limit_rpm => ~op'.ok
             /\ ( /\ Len(user_rpm[u]) = rate_limit_rpm
                  /\ user_rpm[u][1] < now - window_seconds
                  /\ TokensInWindow(user_tpm[u], now) + op'.tokens <= rate_limit_tpm
                  /\ CountedToday(u) < rate_limit_rpd )
                => op'.ok]_vars

\* a check refused for the request ceiling alone
C22_Witness ==
    /\ op.name = "start" /\ ~op.ok
    /\ Len(user_rpm[op.user_id]) = rate_limit_rpm
    /\ TotalTokens(user_tpm[op.user_id]) + op.tokens <= rate_limit_tpm
    /\ user_rpd[op.user_id] < rate_limit_rpd

\* C23: check_rate_limit answers True exactly when, with the entries older
\* than 60 seconds left out and the daily reset applied, fewer than
\* rate_limit_rpm requests are in the window, the window's tokens plus the
\* request's are at most rate_limit_tpm, and the daily count is below
\* rate_limit_rpd.
C23_ThreeCeilings ==
    [][ChecksNow =>
         LET u == op'.user_id
         IN  op'.ok <=> /\ Cardinality(InWindow(user_rpm[u], now)) < rate_limit_rpm
                        /\ TokensInWindow(user_tpm[u], now) + op'.tokens <= rate_limit_tpm
                        /\ CountedToday(u) < rate_limit_rpd]_vars

\* a check refused for the token ceiling alone
C23_Witness ==
    /\ op.name = "start" /\ ~op.ok
    /\ Len(user_rpm[op.user_id]) < rate_limit_rpm
    /\ user_rpd[op.user_id] < rate_limit_rpd
    /\ TotalTokens(user_tpm[op.user_id]) + op.tokens > rate_limit_tpm

\* C24 as stated: the daily counter goes back to zero only in a step that
\* finds the date advanced past the user's recorded date; a check passes only
\* if fewer than rate_limit_rpd requests were recorded today, and the requests
\* of earlier days do not make it fail.
C24_Original ==
    [][/\ \A u \in Users :
            (user_rpd'[u] = 0 /\ user_rpd[u] # 0)
            => (user_rpd_date[u] < today /\ user_rpd_date'[u] = today)
       /\ ChecksNow =>
            LET u == op'.user_id
            IN  /\ op'.ok => recorded_today[u] < rate_limit_rpd
                /\ ( /\ recorded_today[u] < rate_limit_rpd
                     /\ Cardinality(InWindow(user_rpm[u], now)) < rate_limit_rpm
                     /\ TokensInWindow(user_tpm[u], now) + op'.tokens <= rate_limit_tpm )
                   => op'.ok]_vars

\* C25: wait_for_rate_limit returns 0 when the check passes; otherwise 60 minus
\* the age of the oldest request of the window, floored at 0, and the default
\* wait of one second when the window holds no request.
C25_AdvisedWait ==
    [][op'.name = "start" =>
         LET u == op'.user_id
             recent == InWindow(user_rpm[u], now)
             oldest == CHOOSE i \in recent : \A k \in recent : i <= k
             wait_time == window_seconds - (now - user_rpm[u][oldest])
         IN  op'.wait = IF op'.ok THEN 0
                        ELSE IF recent = {} THEN default_wait
                        ELSE IF wait_time > 0 THEN wait_time ELSE 0]_vars

\* a refused call advised to wait for the rest of the oldest request's minute
C25_Witness ==
    /\ op.name = "start" /\ ~op.ok
    /\ op.wait = window_seconds - TickSeconds
    /\ \E c \in Slots : gc[c].pc = "sleep" /\ gc[c].wake = now + op.wait

\* C26: a call whose budget is exceeded sleeps until the advised wait is over;
\* it leaves the sleep only through a second check, which hands the request
\* on if it passes and raises RateLimitError if it does not; a call that ends
\* in RateLimitError was never handed on to the provider.
C26_SleepThenRecheck ==
    [][\A c \in Slots :
         /\ (gc[c].pc = "idle" /\ gc'[c] # gc[c] /\ op'.wait > 0)
            => (gc'[c].pc = "sleep" /\ gc'[c].wake = now + op'.wait /\ ~op'.ok)
         /\ (gc[c].pc = "sleep" /\ gc'[c] # gc[c])
            => /\ now >= gc[c].wake
               /\ op'.name = "recheck"
               /\ IF op'.ok THEN gc'[c].pc = "request" /\ op'.result = "none"
                           ELSE gc'[c].pc = "idle" /\ op'.result = "RateLimitError"
         /\ (gc'[c].pc = "request" /\ gc[c].pc # "request")
            => ( /\ op'.ok
                 /\ Cardinality(InWindow(user_rpm[op'.user_id], now)) < rate_limit_rpm )
         /\ (op'.result = "RateLimitError" /\ gc'[c] # gc[c])
            => gc[c].pc \in {"idle", "sleep"}]_vars

\* a call that slept and was refused by the second check
C26_Witness ==
    /\ op.name = "recheck" /\ op.result = "RateLimitError"
    /\ \A c \in Slots : gc[c].pc # "request"

\* a request of the limiter's records was added for user u in this step
OneRecord(u, tokens) ==
    /\ user_rpm'[u] = Append(user_rpm[u], now)
    /\ user_tpm'[u] = Append(user_tpm[u], <<now, tokens>>)
    /\ user_rpd'[u] = user_rpd[u] + 1

NoRecord(u) ==
    /\ Len(user_rpm'[u]) <= Len(user_rpm[u])
    /\ Len(user_tpm'[u]) <= Len(user_tpm[u])
    /\ user_rpd'[u] <= user_rpd[u]

\* C27: the step in which generate_content returns a response records one
\* request of the call's tokens for the call's user; every other step of a
\* call (the checks, the sleep, an exception leaving the call) records nothing.
C27_RecordOncePerResponse ==
    [][/\ op'.result = "response"
          => (op'.name = "return" /\ OneRecord(op'.user_id, op'.tokens))
       /\ op'.result # "response" => \A u \in Users : NoRecord(u)
       /\ \A u \in Users : u # op'.user_id => NoRecord(u)]_vars

\* two calls returned a response, and two requests are on record
C27_Witness ==
    /\ op.name = "return" /\ op.result = "response"
    /\ user_rpd[op.user_id] = 2 /\ Len(user_rpm[op.user_id]) = 2
    /\ started = 2

\* ---- _call_openai_with_retry ----

\* C28 as stated: an outbound call follows another one of the same request
\* only if the provider answered the earlier one with a rate limit; an answer
\* with another error ends the request at once; and a request makes at most
\* max_retries outbound calls.
C28_Original ==
    /\ [][Len(log') = Len(log) + 1 =>
            /\ log'[Len(log')] = "error" => thread'.pc = "raised"
            /\ thread'.pc \in {"responses", "chat"} => log'[Len(log')] = "rate_limit"]_vars
    /\ [](Len(log) <= max_retries)

\* ---- the event manager ----

\* C29: a broadcast appends the event to the queue of every subscriber of the
\* extraction id and to no other queue, and leaves the registry as it is; with
\* no subscriber nothing changes, and a queue handed out later starts empty.
C29_BroadcastToSubscribers ==
    [][/\ eop'.name = "broadcast" =>
            /\ connections' = connections
            /\ DOMAIN channel' = DOMAIN channel
            /\ \A q \in DOMAIN channel :
                  IF eop'.extraction_id \in DOMAIN connections
                     /\ q \in connections[eop'.extraction_id]
                  THEN channel'[q] = Append(channel[q], eop'.event_data)
                  ELSE channel'[q] = channel[q]
       /\ eop'.name = "subscribe" => channel'[eop'.queue] = <<>>]_vars

\* an event delivered to the subscriber of one extraction and not to the
\* subscriber of another
C29_Witness ==
    /\ eop.name = "broadcast"
    /\ eop.extraction_id \in DOMAIN connections
    /\ \A q \in connections[eop.extraction_id] : channel[q] = <<eop.event_data>>
    /\ \E x \in DOMAIN connections :
          x # eop.extraction_id /\ \A q \in connections[x] : channel[q] = <<>>

\* C30: no extraction id is registered with an empty set of queues; an
\* unsubscribe removes the given queue from the id's set and nothing else, the
\* id's entry going with its last queue; with an id or a queue that is not
\* registered it changes nothing.
C30_NoEmptyEntry ==
    /\ [](\A x \in DOMAIN connections : connections[x] # {})
    /\ [][eop'.name = "unsubscribe" =>
            LET x == eop'.extraction_id
                q == eop'.queue
            IN  IF x \in DOMAIN connections /\ q \in connections[x]
                THEN /\ \A y \in DOMAIN connections : y # x =>
                           (y \in DOMAIN connections' /\ connections'[y] = connections[y])
                     /\ DOMAIN connections' \subseteq DOMAIN connections
                     /\ IF connections[x] = {q}
                        THEN x \notin DOMAIN connections'
                        ELSE x \in DOMAIN connections'
                             /\ connections'[x] = connections[x] \ {q}
                ELSE connections' = connections]_vars

\* the last subscriber of one extraction has gone while another extraction
\* keeps its subscribers
C30_Witness ==
    /\ eop.name = "unsubscribe"
    /\ eop.extraction_id \notin DOMAIN connections
    /\ \E q \in DOMAIN channel : \A x \in DOMAIN connections : q \notin connections[x]
    /\ DOMAIN connections # {}

\* ---- the status streams ----

\* the events broadcast for a stream's extraction id since the stream subscribed
EventsSince(q) ==
    LET later == SubSeq(broadcasts, stream[q].since + 1, Len(broadcasts))
        mine == SelectSeq(later, LAMBDA b : b[1] = stream[q].extraction_id)
    IN  [i \in 1..Len(mine) |-> mine[i][2]]

Open(q) == q \in DOMAIN stream /\ ~stream[q].closed

\* C31: what an open stream has sent, followed by what waits on its queue, is
\* the connection message and then the events broadcast for its extraction id
\* since it subscribed, each once and in the order of the broadcasts.
C31_StreamInOrder ==
    \A q \in DOMAIN stream :
        Open(q) => stream[q].out \o channel[q] = <<"connected">> \o EventsSince(q)

\* one stream has sent two different events in their broadcast order; a stream
\* of the same extraction that subscribed between the two has only the second
C31_Witness ==
    \E q, r \in DOMAIN stream :
        /\ Open(q) /\ Open(r)
        /\ stream[q].extraction_id = stream[r].extraction_id
        /\ Len(broadcasts) = 2
        /\ broadcasts[1][2] # broadcasts[2][2]
        /\ stream[q].out = <<"connected", broadcasts[1][2], broadcasts[2][2]>>
        /\ stream[r].out = <<"connected", broadcasts[2][2]>>

\* the stream has sent the event that tells its job's terminal status
SentTerminal(q) ==
    Open(q) /\ \E i \in 1..Len(stream[q].out) : stream[q].out[i] \in TerminalData

\* C32: a stream that has sent its job's terminal status ends, its
\* subscription leaving the registry, the subscriber staying connected or not.
C32_Original ==
    \A q \in 1..MaxQueues :
        SentTerminal(q) ~>
            (~Open(q) /\ \A x \in DOMAIN connections : q \notin connections[x])

IdleWithJob(u) == ProcessingGet(u) = None /\ QueueOf(u) # <<>>

\* C34: while another user has a job in the processing slot, a job that waits
\* in the queue of a user with a free slot is started (unless an enqueue call
\* of that same user is what keeps it waiting).
C34_Original ==
    \A u \in Users :
        (IdleWithJob(u) /\ \E v \in Users \ {u} : ProcessingGet(v) # None)
            ~> (ProcessingGet(u) # None \/ enq.user_id = u)

\* ---- a failing store stage ----

\* the task's store step raises in this step
StoreRaises(t) == t.pc = "p_store" /\ store_raised' = t.extraction_id /\ ~(active' = Move(t, "p_timing"))

\* C35 as stated: a job whose store stage raised is never turned Failed.
C35_Original ==
    store_raised # None => status[store_raised] # "failed"

\* C35: a raising store stage writes nothing and hands the exception to the
\* pipeline's handler; from then on the job is at Processing or, once a
\* handler's status write has gone through, Failed (or its row deleted); and
\* when the attempt ends the user's slot is None and one more process_queue
\* task is scheduled.
C35_Amended ==
    /\ [][\A t \in active : StoreRaises(t) =>
              /\ status' = status /\ outputs' = outputs
              /\ active' = Move(t, "p_except")]_vars
    /\ [](store_raised # None => status[store_raised] \in {"processing", "failed", "deleted"})
    /\ [][\A t \in active : (t.extraction_id = store_raised /\ TaskEnds(t)) =>
              /\ processing'[t.user_id] = None
              /\ spawned'[t.user_id] = spawned[t.user_id] + 1]_vars

\* the store stage of a job raised, a handler has marked the job Failed and
\* the attempt has reached process_queue's finally block, the user's next job
\* waiting in the queue
C35_Witness ==
    \E t \in active :
        /\ t.extraction_id = store_raised /\ t.pc = "finally"
        /\ status[t.extraction_id] = "failed"
        /\ ProcessingGet(t.user_id) = t.extraction_id
        /\ QueueOf(t.user_id) # <<>>

\* ---- a run whose stages all succeed ----

\* every extraction and validation coroutine of the run has returned, the
\* finalize call has been answered and the pipeline has returned
AllSucceeded ==
    /\ ppc = "returned"
    /\ \A i \in DOMAIN ext : ext[i].state = "returned"
    /\ \A i \in DOMAIN val : val[i].state = "returned"

\* C36: a run over N images whose stages all succeed has made one extraction
\* request per image, then one validation request per image, the request for
\* image i carrying image i - 1 (for i > 0) and image i and no other image,
\* then one finalize request, and has left the job Completed; no validation
\* request is made before every extraction coroutine is done, and no finalize
\* request before every validation coroutine is done.
C36_CallsOfASuccessfulRun ==
    /\ AllSucceeded =>
          /\ DOMAIN ext = ImageIndexes /\ DOMAIN val = ImageIndexes
          /\ DOMAIN carried = ImageIndexes
          /\ \A i \in ImageIndexes :
                 carried[i] = IF i > 0 THEN <<i - 1, i>> ELSE <<i>>
          /\ fin \in CallOutcomes
          /\ calls.requests = 2 * image_bytes_list + 1
          /\ status[TheJob] = "completed"
    /\ DOMAIN carried # {} => AllDone(ext)
    /\ fin # "none" => AllDone(val) /\ calls.requests >= Cardinality(DOMAIN carried)

\* a run over two images has returned with the job Completed
C36_Witness ==
    /\ AllSucceeded
    /\ image_bytes_list = 2
    /\ carried = (0 :> <<0>>) @@ (1 :> <<0, 1>>)
    /\ calls.requests = 5
    /\ status[TheJob] = "completed"

\* ---- termination of enqueue_extraction ----

\* C37: an enqueue_extraction call that has taken the manager's lock leaves its
\* loop after finitely many iterations and releases the lock.
C37_Original ==
    (lock /\ enq.pc = "loop") ~> (~lock /\ enq.pc = "idle")

\* ---- concurrent calls and the ceilings ----

\* C38: for every user the requests recorded in the 60-second window that ends
\* now are at most rate_limit_rpm, and the tokens recorded in it at most
\* rate_limit_tpm.
C38_Original ==
    \A u \in Users :
        /\ Cardinality(InWindow(user_rpm[u], now)) <= rate_limit_rpm
        /\ TokensInWindow(user_tpm[u], now) <= rate_limit_tpm

\* ---- every accepted job is processed ----

\* the attempt on extraction j is over: j is neither queued nor held by a task
\* nor in its user's slot
AttemptOver(j) ==
    /\ ~Queued(j) /\ ~BeingEnqueued(j) /\ ~InAttempt(j)
    /\ ProcessingGet(owner[j]) # j

\* C39: a job that an enqueue_extraction call has put in its user's queue is
\* eventually dequeued, and its attempt eventually ends with the slot released.
C39_Original ==
    \A j \in Jobs : (Queued(j) /\ LoopFree) ~> AttemptOver(j)

\* ---- queue integrity ----

\* no id twice in the user's queue, and the id in the slot not in the queue
OncePerUser(u) ==
    /\ \A i, k \in 1..Len(QueueOf(u)) : QueueOf(u)[i][2] = QueueOf(u)[k][2] => i = k
    /\ ProcessingGet(u) # None => Pos(QueueOf(u), ProcessingGet(u)) = 0

\* the running enqueue_extraction call has taken j's entry off the queue after
\* its insertion was done: the code after the loop puts temp_items back only
\* `if not found_insert`
Dropped(j) ==
    /\ enq.pc = "loop" /\ enq.found_insert
    /\ \E i \in 1..Len(enq.temp_items) : enq.temp_items[i][2] = j
    /\ ~Queued(j)

\* the job taken in this step has its bytes stored and no attempt behind it
FirstDequeue(u) ==
    LET j == processing'[u]
    IN  j \in file_storage /\ ~InAttempt(j) /\ Pos(QueueOf(u), j) > 0

C40_IdsOnce == \A u \in Users : OncePerUser(u)

C40_NoneDropped == \A j \in Jobs : ~Dropped(j)

C40_DequeuedOnce == [][\A u \in Users : Dequeues(u) => FirstDequeue(u)]_vars

\* C40: a job id is at most once in a user's pending queue and processing
\* slot, an enqueue_extraction call loses no pending entry of another job, and
\* a job is handed to the pipeline at most once.
C40_Original ==
    /\ [](C40_IdsOnce /\ C40_NoneDropped)
    /\ C40_DequeuedOnce

====
